---- MODULE Spec2Model ----
(***************************************************************************)
(* State-machine model of the orchestration layer of visual-ida:           *)
(*   - PresetManager            (src/unnamed/part_001, lines 230-727)      *)
(*   - PresetTransitionManager  (src/src/lib/presets/...Manager.svelte.ts) *)
(*   - PresetStorage            (src/src/lib/presets/storage.ts)           *)
(*   - MotionDetection          (src/src/lib/MotionDetection.svelte.ts)    *)
(* wired as in src/src/routes/+page.svelte.                                *)
(*                                                                         *)
(* Continuous option values are fixed-point integers in units of 1/1000.   *)
(* The program reads two unrelated clocks: performance.now() (variable     *)
(* now, drives the transition) and Date.now() / new Date() (variable       *)
(* wallClock, stamps presets and cycles).  Neither advances inside one     *)
(* handler of the orchestrator.                                            *)
(***************************************************************************)
EXTENDS Integers, Sequences, FiniteSets, TLC

(***************************************************************************)
(* Bounds of the model                                                     *)
(***************************************************************************)
MaxPresets == 2          \* longest preset collection explored
MaxTicks == 2            \* ticks of performance.now() explored
MaxWallTicks == 1        \* ticks of Date.now() explored
MaxCycleTimers == 2      \* most cycle timeouts pending at once
RandomSteps == 3         \* resolution of Math.random(): k/RandomSteps
MaxPacerTimers == 2      \* most frame-pacer timeouts pending at once
MaxFrames == 3           \* frames counted by the pacer before the model stops
MaxDriftTimers == 2      \* most drift timeouts pending at once
MaxDriftTicks == 2       \* ticks of performance.now() under the drift generator
RandomResolution == 722  \* Math.random() = k/RandomResolution in the generator

(***************************************************************************)
(* Program constants                                                       *)
(***************************************************************************)
MinDuration == 100               \* PresetTransitionManager.setDuration
DefaultDuration == 3000          \* PresetTransitionManager.transitionDuration
DefaultCycleInterval == 30000    \* PresetManager._state.cycleInterval
DefaultColorInterval == 30000    \* PresetManager.colorIntervalDuration
MinInterval == 1000              \* setCycleInterval / setColorIntervalDuration
TargetFps == 20                  \* processMotionDetection: 1000 / 20
DefaultComputeTime == 16         \* processMotionDetection: computeTime || 16
FpsWindow == 1000                \* countFrames: one second

TickMs == MinDuration            \* granularity of the model clock

NullId == 0                      \* currentPresetId: null
NullHandle == 0                  \* timer / animation-frame handle: null
NullOptions == [null |-> TRUE]   \* lastAppliedOptions / startValues: null

(***************************************************************************)
(* MotionDetectionOptions                                                  *)
(***************************************************************************)
ContinuousFields ==
    {"motionDecayRate", "movementAngle", "movementSpeed", "motionThreshold",
     "motionSensitivity", "rotationSpeed", "waveAmplitude", "waveFrequency",
     "wavePhase"}

DiscreteFields == {"moveType", "waveDirection"}

OptionFields == ContinuousFields \cup DiscreteFields

\* MotionDetection._options initial value
DefaultOptions ==
    [motionDecayRate |-> 800, movementAngle |-> 280000, movementSpeed |-> 40000,
     motionThreshold |-> 30000, motionSensitivity |-> 1500,
     moveType |-> "direction", rotationSpeed |-> 100, waveAmplitude |-> 5000,
     waveFrequency |-> 20, wavePhase |-> 0, waveDirection |-> 0]

\* parameter sets handed to createPreset / saveEditingPreset
WaveOptions ==
    [DefaultOptions EXCEPT !.moveType = "wave", !.waveAmplitude = 10000,
                           !.waveDirection = 1, !.motionDecayRate = 900,
                           !.movementSpeed = 20000]

DirectionOptions ==
    [DefaultOptions EXCEPT !.movementAngle = 90000, !.motionDecayRate = 805,
                           !.wavePhase = 3000]

OptionChoices == {WaveOptions}

\* slider positions the user can put the live set in
EditChoices == {DefaultOptions}

NewName == "A"

Names == {"A", "B"}

(***************************************************************************)
(* Variables                                                               *)
(***************************************************************************)
VARIABLES
    presets,           \* PresetManager._presets
    state,             \* PresetManager._state
    cycleTimeout,      \* PresetManager.cycleTimeout (handle or NullHandle)
    cycleTimers,       \* handles of the cycle timeouts still pending
    transitionManager, \* fields of PresetTransitionManager
    animationFrames,   \* handles of the animation frames still pending
    options,           \* MotionDetection._options, the live Parameter Set
    localStorage,      \* blob stored under 'motion-detection-presets'
    settingsStorage,   \* blob stored under 'visual-ida-preset-settings'
    colorIntervalDuration, \* PresetManager.colorIntervalDuration
    storeFaulty,       \* localStorage.setItem may throw (quota exceeded)
    now,               \* performance.now()
    wallClock,         \* Date.now()
    pushed,            \* values handed to updateCallback by the last handler
    lastOp,            \* the handler that ran last, its arguments and result
    motion,            \* fields of MotionDetection (the frame pacer)
    pacerTimers,       \* delays of the pacer timeouts still pending
    drift,             \* fields of AnimateAngleChange (the drift generator)
    driftTimers,       \* handles of the drift timeouts still pending
    driftFrames        \* handles of the drift animation frames still pending

managerVars == <<presets, state, cycleTimeout, cycleTimers, transitionManager,
                 animationFrames, options, localStorage, settingsStorage,
                 colorIntervalDuration, pushed>>

settingsVars == <<settingsStorage, colorIntervalDuration>>

pacerVars == <<motion, pacerTimers>>

driftVars == <<drift, driftTimers, driftFrames>>

vars == <<presets, state, cycleTimeout, cycleTimers, transitionManager,
          animationFrames, options, localStorage, storeFaulty, now, wallClock,
          pushed, lastOp, motion, pacerTimers, drift, driftTimers, driftFrames,
          settingsStorage, colorIntervalDuration>>

(***************************************************************************)
(* Small helpers                                                           *)
(***************************************************************************)
Max(a, b) == IF a >= b THEN a ELSE b

Min(a, b) == IF a <= b THEN a ELSE b

Abs(a) == IF a >= 0 THEN a ELSE -a

\* setTimeout / requestAnimationFrame return a handle no pending timer
\* carries; every handle the program obtains is stored at once in the one
\* field that remembers it, so a handle whose timer has fired is never
\* confused with a later one
FreshHandle(pending) ==
    CHOOSE h \in 1..(Cardinality(pending) + 1) : h \notin pending

RECURSIVE GCD(_, _)
GCD(a, b) == IF b = 0 THEN a ELSE GCD(b, a % b)

\* the fraction n/d in lowest terms, d > 0
Fraction(n, d) == LET g == GCD(d, n) IN <<n \div g, d \div g>>

\* Array.prototype.findIndex, 0-based, -1 when absent
FindIndex(seq, id) ==
    IF \E i \in 1..Len(seq) : seq[i].id = id
    THEN (CHOOSE i \in 1..Len(seq) :
              seq[i].id = id /\ \A j \in 1..(i - 1) : seq[j].id # id) - 1
    ELSE -1

Ids(seq) == {seq[i].id : i \in 1..Len(seq)}

\* Object.assign(target, source) / { ...target, ...source }
Assign(target, source) ==
    [f \in DOMAIN target \cup DOMAIN source |->
        IF f \in DOMAIN source THEN source[f] ELSE target[f]]

(***************************************************************************)
(* The world a handler runs in: the variables above as one record, plus    *)
(* the handler's environment inputs (accept: localStorage.setItem does not *)
(* throw; rand: Math.random() = rand / RandomSteps) and its return value.  *)
(***************************************************************************)
World(accept, rand) ==
    [presets |-> presets, state |-> state, cycleTimeout |-> cycleTimeout,
     cycleTimers |-> cycleTimers, transitionManager |-> transitionManager,
     animationFrames |-> animationFrames, options |-> options,
     localStorage |-> localStorage, settingsStorage |-> settingsStorage,
     colorIntervalDuration |-> colorIntervalDuration,
     now |-> now, wallClock |-> wallClock, pushed |-> <<>>,
     accept |-> accept, rand |-> rand, ret |-> FALSE, durationChanges |-> 0]

(***************************************************************************)
(* PresetStorage                                                           *)
(***************************************************************************)
Date(ms) == [time |-> ms]

toISOString(d) == [iso |-> d.time]

\* variant: every stored timestamp is read as the epoch
DateFromString_epoch(s) == [time |-> 0]

DateFromString(s) == [time |-> s.iso]

AbsentBlob == [kind |-> "absent", items |-> <<>>]

CorruptBlob == [kind |-> "corrupt", items |-> <<>>]

\* JSON.stringify(presets, replacer): Date objects become ISO strings
JSON_stringify(ps) ==
    [kind |-> "json",
     items |-> [i \in 1..Len(ps) |->
                   [ps[i] EXCEPT !.createdAt = toISOString(ps[i].createdAt),
                                 !.updatedAt = toISOString(ps[i].updatedAt)]]]

\* PresetStorage.save: a throwing setItem is caught and logged
PresetStorage_save(w) ==
    IF w.accept THEN [w EXCEPT !.localStorage = JSON_stringify(w.presets)]
    ELSE w

\* new Date(undefined)
InvalidDate == [time |-> "NaN"]

\* PresetStorage.load: absent blob or any exception gives [].  Kinds of
\* entry: "absent" (getItem returns null), "unreadable" (getItem throws),
\* "corrupt" (JSON.parse throws), "value" (the decoded value is no list, so
\* parsed.map is not a function and the call throws), "scalars" (a list of
\* numbers: spreading a number gives no property and reading createdAt of
\* it gives undefined, nothing throws), "json" (a list of records)
PresetStorage_load(blob) ==
    IF blob.kind = "absent" THEN <<>>
    ELSE IF blob.kind \in {"unreadable", "corrupt", "value"} THEN <<>>
    ELSE IF blob.kind = "scalars"
    THEN [i \in 1..Len(blob.items) |->
             [createdAt |-> InvalidDate, updatedAt |-> InvalidDate]]
    ELSE [i \in 1..Len(blob.items) |->
             [blob.items[i] EXCEPT
                 !.createdAt = DateFromString(blob.items[i].createdAt),
                 !.updatedAt = DateFromString(blob.items[i].updatedAt)]]

savePresets(w) == PresetStorage_save(w)

(***************************************************************************)
(* PresetTransitionManager                                                 *)
(***************************************************************************)
\* the onPresetChange callback of +page.svelte: Object.assign on the live set
updateCallback(w, o) ==
    [w EXCEPT !.options = Assign(w.options, o), !.pushed = Append(w.pushed, o)]

\* variant: the flag is cleared and the pending frame is left to fire
cancelTransition_flagOnly(w) ==
    [w EXCEPT !.transitionManager.isTransitioning = FALSE]

cancelTransition(w) ==
    LET tm == w.transitionManager IN
    IF tm.animationFrame # NullHandle
    THEN [w EXCEPT !.transitionManager.isTransitioning = FALSE,
                   !.transitionManager.animationFrame = NullHandle,
                   !.animationFrames = @ \ {tm.animationFrame}]
    ELSE [w EXCEPT !.transitionManager.isTransitioning = FALSE]

\* progress values are exact fractions <<numerator, denominator>>
lerp(start, end, t) == start + ((end - start) * t[1]) \div t[2]

\* t < 0.5 ? 2*t*t : -1 + (4 - 2*t)*t
easeInOut(t) ==
    IF 2 * t[1] < t[2]
    THEN <<2 * t[1] * t[1], t[2] * t[2]>>
    ELSE <<(4 * t[1] * t[2]) - (2 * t[1] * t[1]) - (t[2] * t[2]), t[2] * t[2]>>

requestAnimationFrame(w) ==
    LET h == FreshHandle(w.animationFrames)
    IN [w EXCEPT !.transitionManager.animationFrame = h,
                 !.animationFrames = @ \cup {h}]

\* variant: a step at full progress pushes its values and asks for another
\* frame instead of finishing
animate_neverCompletes(w) ==
    LET tm == w.transitionManager IN
    IF ~tm.isTransitioning \/ tm.startValues = NullOptions
                          \/ tm.targetValues = NullOptions
    THEN w
    ELSE
      LET elapsed == w.now - tm.transitionStartTime
          rawProgress == Fraction(Min(elapsed, tm.transitionDuration),
                                  tm.transitionDuration)
          progress == easeInOut(rawProgress)
          interpolatedValues ==
              [f \in OptionFields |->
                  IF f \in DiscreteFields THEN tm.targetValues[f]
                  ELSE lerp(tm.startValues[f], tm.targetValues[f], progress)]
      IN requestAnimationFrame(updateCallback(w, interpolatedValues))

\* variant: a step leaves the discrete fields as it finds them in the live set
animate_liveDiscrete(w) ==
    LET tm == w.transitionManager IN
    IF ~tm.isTransitioning \/ tm.startValues = NullOptions
                          \/ tm.targetValues = NullOptions
    THEN w
    ELSE
      LET elapsed == w.now - tm.transitionStartTime
          rawProgress == Fraction(Min(elapsed, tm.transitionDuration),
                                  tm.transitionDuration)
          progress == easeInOut(rawProgress)
          interpolatedValues ==
              [f \in OptionFields |->
                  IF f \in DiscreteFields THEN w.options[f]
                  ELSE lerp(tm.startValues[f], tm.targetValues[f], progress)]
          w1 == updateCallback(w, interpolatedValues)
      IN IF rawProgress[1] < rawProgress[2]
         THEN requestAnimationFrame(w1)
         ELSE updateCallback(
                 [w1 EXCEPT !.transitionManager.isTransitioning = FALSE,
                            !.transitionManager.animationFrame = NullHandle],
                 tm.targetValues)

animate(w) ==
    LET tm == w.transitionManager IN
    IF ~tm.isTransitioning \/ tm.startValues = NullOptions
                          \/ tm.targetValues = NullOptions
    THEN w
    ELSE
      LET elapsed == w.now - tm.transitionStartTime
          rawProgress == Fraction(Min(elapsed, tm.transitionDuration),
                                  tm.transitionDuration)
          progress == easeInOut(rawProgress)
          interpolatedValues ==
              [f \in OptionFields |->
                  IF f \in DiscreteFields THEN tm.targetValues[f]
                  ELSE lerp(tm.startValues[f], tm.targetValues[f], progress)]
          w1 == updateCallback(w, interpolatedValues)
      IN IF rawProgress[1] < rawProgress[2]
         THEN requestAnimationFrame(w1)
         ELSE updateCallback(
                 [w1 EXCEPT !.transitionManager.isTransitioning = FALSE,
                            !.transitionManager.animationFrame = NullHandle],
                 tm.targetValues)

\* variant: a transition that interrupts another starts from the target of
\* the one it interrupts
startTransition_fromPreviousTarget(w, currentValues, targetValues) ==
    LET w0 == cancelTransition(w)
        from == IF w.transitionManager.isTransitioning
                THEN w.transitionManager.targetValues ELSE currentValues
        moveTypeDiffers == from.moveType # targetValues.moveType
        waveDirectionDiffers == from.waveDirection # targetValues.waveDirection
        immediateUpdate ==
            [from EXCEPT
                !.moveType = IF moveTypeDiffers THEN targetValues.moveType ELSE @,
                !.waveDirection = IF waveDirectionDiffers
                                  THEN targetValues.waveDirection ELSE @]
        w1 == [w0 EXCEPT !.transitionManager.startValues = immediateUpdate,
                         !.transitionManager.targetValues = targetValues]
        w2 == IF moveTypeDiffers \/ waveDirectionDiffers
              THEN updateCallback(w1, immediateUpdate) ELSE w1
        w3 == [w2 EXCEPT !.transitionManager.isTransitioning = TRUE,
                         !.transitionManager.transitionStartTime = w.now]
    IN animate(w3)

startTransition(w, currentValues, targetValues) ==
    LET w0 == cancelTransition(w)
        moveTypeDiffers == currentValues.moveType # targetValues.moveType
        waveDirectionDiffers == currentValues.waveDirection # targetValues.waveDirection
        immediateUpdate ==
            [currentValues EXCEPT
                !.moveType = IF moveTypeDiffers THEN targetValues.moveType ELSE @,
                !.waveDirection = IF waveDirectionDiffers
                                  THEN targetValues.waveDirection ELSE @]
        w1 == [w0 EXCEPT !.transitionManager.startValues = immediateUpdate,
                         !.transitionManager.targetValues = targetValues]
        w2 == IF moveTypeDiffers \/ waveDirectionDiffers
              THEN updateCallback(w1, immediateUpdate) ELSE w1
        w3 == [w2 EXCEPT !.transitionManager.isTransitioning = TRUE,
                         !.transitionManager.transitionStartTime = w.now]
    IN animate(w3)

\* variant: the new values are pushed over a transition left running
applyImmediately_noCancel(w, o) == updateCallback(w, o)

applyImmediately(w, o) == updateCallback(cancelTransition(w), o)

\* SettingsStorage: the record stored as JSON, or no / an unreadable entry
AbsentSettings ==
    [kind |-> "absent", transitionDuration |-> 0, cycleDuration |-> 0,
     colorIntervalDuration |-> 0]

CorruptSettings ==
    [kind |-> "corrupt", transitionDuration |-> 0, cycleDuration |-> 0,
     colorIntervalDuration |-> 0]

defaultSettings ==
    [transitionDuration |-> DefaultDuration,
     cycleDuration |-> DefaultCycleInterval,
     colorIntervalDuration |-> DefaultColorInterval]

\* JSON.stringify(settings) of three finite numbers
SettingsBlob(settings) ==
    [kind |-> "json", transitionDuration |-> settings.transitionDuration,
     cycleDuration |-> settings.cycleDuration,
     colorIntervalDuration |-> settings.colorIntervalDuration]

\* SettingsStorage.save: a throwing setItem is caught and logged
SettingsStorage_save(w, settings) ==
    IF w.accept THEN [w EXCEPT !.settingsStorage = SettingsBlob(settings)]
    ELSE w

\* SettingsStorage.load: no entry or an exception gives the defaults
SettingsStorage_load(blob) ==
    IF blob.kind = "json"
    THEN [transitionDuration |-> blob.transitionDuration,
          cycleDuration |-> blob.cycleDuration,
          colorIntervalDuration |-> blob.colorIntervalDuration]
    ELSE defaultSettings

\* PresetManager.saveSettings, also the onDurationChange callback
saveSettings(w) ==
    SettingsStorage_save(w,
        [transitionDuration |-> w.transitionManager.transitionDuration,
         cycleDuration |-> w.state.cycleInterval,
         colorIntervalDuration |-> w.colorIntervalDuration])

\* variant: the duration is stored as given
setDuration_unclamped(w, durationMs) ==
    saveSettings(
        [w EXCEPT !.transitionManager.transitionDuration = durationMs,
                  !.durationChanges = @ + 1])

\* durationChanges counts the calls of onDurationChangeCallback, which the
\* orchestrator wires to saveSettings
setDuration(w, durationMs) ==
    saveSettings(
        [w EXCEPT !.transitionManager.transitionDuration =
                      Max(MinDuration, durationMs),
                  !.durationChanges = @ + 1])

(***************************************************************************)
(* PresetManager                                                           *)
(***************************************************************************)
\* `preset_${Date.now()}_${Math.random()...}`: an id no preset carries and
\* nothing refers to
FreshId(w) ==
    CHOOSE i \in 1..(Len(w.presets) + 2) :
        i \notin Ids(w.presets) \cup {w.state.currentPresetId}

\* An options argument is an object of its own (a record of the eleven
\* controls) or the live object motionDetection.options itself.
LiveOptions == [ref |-> "motionDetection.options"]

\* the controls an options object holds when the live set is live
Deref(o, live) == IF o = LiveOptions THEN live ELSE o

\* { ...options }: a new object with the properties of the argument
Spread(w, o) == Deref(o, w.options)

\* variant: the argument itself is stored
createPreset_byReference(w, name, opts, description) ==
    LET id == FreshId(w)
        newPreset == [id |-> id, name |-> name, description |-> description,
                      options |-> opts, createdAt |-> Date(w.wallClock),
                      updatedAt |-> Date(w.wallClock)]
    IN [savePresets([w EXCEPT !.presets = Append(@, newPreset)]) EXCEPT !.ret = id]

createPreset(w, name, opts, description) ==
    LET id == FreshId(w)
        newPreset == [id |-> id, name |-> name, description |-> description,
                      options |-> Spread(w, opts), createdAt |-> Date(w.wallClock),
                      updatedAt |-> Date(w.wallClock)]
    IN [savePresets([w EXCEPT !.presets = Append(@, newPreset)]) EXCEPT !.ret = id]

updatePreset(w, id, updates) ==
    LET presetIndex == FindIndex(w.presets, id) IN
    IF presetIndex = -1 THEN [w EXCEPT !.ret = FALSE]
    ELSE
      LET updated == [Assign(w.presets[presetIndex + 1], updates)
                         EXCEPT !.updatedAt = Date(w.wallClock)]
      IN [savePresets([w EXCEPT !.presets[presetIndex + 1] = updated])
             EXCEPT !.ret = TRUE]

updatePresetName(w, id, name) == updatePreset(w, id, [name |-> name])

\* variant: the entry is removed and currentPresetId is left alone
deletePreset_keepsCurrent(w, id) ==
    LET remaining == SelectSeq(w.presets, LAMBDA p : p.id # id)
        w1 == [w EXCEPT !.presets = remaining]
    IN IF Len(remaining) # Len(w.presets)
       THEN [savePresets(w1) EXCEPT !.ret = TRUE]
       ELSE [w1 EXCEPT !.ret = FALSE]

deletePreset(w, id) ==
    LET remaining == SelectSeq(w.presets, LAMBDA p : p.id # id)
        w1 == [w EXCEPT !.presets = remaining,
                        !.state.currentPresetId =
                            IF @ = id THEN NullId ELSE @]
    IN IF Len(remaining) # Len(w.presets)
       THEN [savePresets(w1) EXCEPT !.ret = TRUE]
       ELSE [w1 EXCEPT !.ret = FALSE]

selectPreset(w, id) ==
    IF id \notin Ids(w.presets) THEN [w EXCEPT !.ret = FALSE]
    ELSE [w EXCEPT !.state.currentPresetId = id, !.ret = TRUE]

\* getCurrentOptionsCallback of +page.svelte returns the live set
getCurrentOptionsCallback(w) == w.options

applyPreset(w, id, useTransition) ==
    IF id \notin Ids(w.presets) THEN [w EXCEPT !.ret = FALSE]
    ELSE
      LET preset == w.presets[FindIndex(w.presets, id) + 1]
          w1 == [w EXCEPT !.state.currentPresetId = id,
                          !.state.lastAppliedOptions = preset.options,
                          !.state.hasUnsavedChanges = FALSE]
          targetOptions == preset.options
          w2 == IF useTransition
                THEN startTransition(w1, getCurrentOptionsCallback(w1), targetOptions)
                ELSE applyImmediately(w1, targetOptions)
      IN [w2 EXCEPT !.ret = TRUE]

\* variant: every numeric key is compared exactly
Tolerance_exact(key) == 0

\* tolerance of checkForUnsavedChanges, per numeric key, in units of 1/1000
Tolerance(key) ==
    CASE key = "waveFrequency" -> 10
      [] key = "rotationSpeed" -> 10
      [] key = "movementSpeed" -> 1000
      [] key = "waveAmplitude" -> 1000
      [] key = "motionDecayRate" -> 10
      [] key = "wavePhase" -> 50
      [] key = "motionThreshold" -> 1000
      [] key = "motionSensitivity" -> 100
      [] key = "movementAngle" -> 1000
      [] key = "waveDirection" -> 0
      [] OTHER -> 50

isSignificantlyDifferent(current, saved, key) ==
    IF key = "movementAngle" THEN FALSE
    ELSE IF key = "moveType" THEN current # saved
    ELSE Abs(current - saved) > Tolerance(key)

\* variant: the comparison also runs while cycling is on
checkForUnsavedChanges_whilePlaying(w, currentOptions) ==
    IF w.state.lastAppliedOptions = NullOptions
       \/ w.state.currentPresetId = NullId
    THEN [w EXCEPT !.state.hasUnsavedChanges = FALSE]
    ELSE [w EXCEPT !.state.hasUnsavedChanges =
             \E key \in DOMAIN currentOptions :
                 isSignificantlyDifferent(currentOptions[key],
                                          w.state.lastAppliedOptions[key], key)]

checkForUnsavedChanges(w, currentOptions) ==
    IF w.state.isPlaying THEN [w EXCEPT !.state.hasUnsavedChanges = FALSE]
    ELSE IF w.state.lastAppliedOptions = NullOptions
            \/ w.state.currentPresetId = NullId
    THEN [w EXCEPT !.state.hasUnsavedChanges = FALSE]
    ELSE [w EXCEPT !.state.hasUnsavedChanges =
             \E key \in DOMAIN currentOptions :
                 isSignificantlyDifferent(currentOptions[key],
                                          w.state.lastAppliedOptions[key], key)]

updateCurrentPreset(w, opts) ==
    IF w.state.currentPresetId = NullId THEN [w EXCEPT !.ret = FALSE]
    ELSE
      LET w1 == updatePreset(w, w.state.currentPresetId, [options |-> opts])
      IN IF w1.ret
         THEN [w1 EXCEPT !.state.lastAppliedOptions = opts,
                         !.state.hasUnsavedChanges = FALSE]
         ELSE w1

createPresetFromCurrent(w, name, opts, description) ==
    LET w1 == createPreset(w, name, opts, description)
    IN [w1 EXCEPT !.state.currentPresetId = w1.ret,
                  !.state.lastAppliedOptions = opts,
                  !.state.hasUnsavedChanges = FALSE]

discardChanges(w) ==
    IF w.state.currentPresetId # NullId /\ w.state.lastAppliedOptions # NullOptions
    THEN applyPreset(w, w.state.currentPresetId, FALSE)
    ELSE w

scheduleNextCycle(w) ==
    IF ~w.state.isPlaying THEN w
    ELSE LET h == FreshHandle(w.cycleTimers)
         IN [w EXCEPT !.cycleTimeout = h, !.cycleTimers = @ \cup {h}]

\* variant: the draw is made among all presets, the current one included
cycleToNextPreset_anyPreset(w) ==
    IF Len(w.presets) = 0 THEN w
    ELSE IF Len(w.presets) = 1
    THEN scheduleNextCycle(
             [applyPreset(w, w.presets[1].id, TRUE) EXCEPT !.state.lastCycleTime = w.wallClock])
    ELSE
      LET availablePresets == w.presets
          randomIndex == (w.rand * Len(availablePresets)) \div RandomSteps
      IN IF randomIndex < Len(availablePresets)
         THEN scheduleNextCycle(
                  [applyPreset(w, availablePresets[randomIndex + 1].id, TRUE)
                      EXCEPT !.state.lastCycleTime = w.wallClock])
         ELSE scheduleNextCycle(w)

\* variant: the only preset is applied at once, without a transition
cycleToNextPreset_singleAtOnce(w) ==
    IF Len(w.presets) = 0 THEN w
    ELSE IF Len(w.presets) = 1
    THEN scheduleNextCycle(
             [applyPreset(w, w.presets[1].id, FALSE) EXCEPT !.state.lastCycleTime = w.wallClock])
    ELSE
      LET availablePresets ==
              IF w.state.currentPresetId # NullId
              THEN SelectSeq(w.presets, LAMBDA p : p.id # w.state.currentPresetId)
              ELSE w.presets
          randomIndex == (w.rand * Len(availablePresets)) \div RandomSteps
      IN IF randomIndex < Len(availablePresets)
         THEN scheduleNextCycle(
                  [applyPreset(w, availablePresets[randomIndex + 1].id, TRUE)
                      EXCEPT !.state.lastCycleTime = w.wallClock])
         ELSE scheduleNextCycle(w)

cycleToNextPreset(w) ==
    IF Len(w.presets) = 0 THEN w
    ELSE IF Len(w.presets) = 1
    THEN scheduleNextCycle(
             [applyPreset(w, w.presets[1].id, TRUE) EXCEPT !.state.lastCycleTime = w.wallClock])
    ELSE
      LET availablePresets ==
              IF w.state.currentPresetId # NullId
              THEN SelectSeq(w.presets, LAMBDA p : p.id # w.state.currentPresetId)
              ELSE w.presets
          randomIndex == (w.rand * Len(availablePresets)) \div RandomSteps
      IN IF randomIndex < Len(availablePresets)
         THEN scheduleNextCycle(
                  [applyPreset(w, availablePresets[randomIndex + 1].id, TRUE)
                      EXCEPT !.state.lastCycleTime = w.wallClock])
         ELSE scheduleNextCycle(w)

startCycling(w) ==
    IF Len(w.presets) = 0 THEN w
    ELSE cycleToNextPreset(
             [w EXCEPT !.state.isPlaying = TRUE, !.state.lastCycleTime = 0,
                       !.state.hasUnsavedChanges = FALSE])

stopCycling(w) ==
    LET w1 == IF w.cycleTimeout # NullHandle
              THEN [w EXCEPT !.state.isPlaying = FALSE,
                             !.cycleTimers = @ \ {w.cycleTimeout},
                             !.cycleTimeout = NullHandle]
              ELSE [w EXCEPT !.state.isPlaying = FALSE]
    IN [cancelTransition(w1) EXCEPT !.state.hasUnsavedChanges = FALSE]

\* variant: cycling is stopped before the preset is looked up
startEditingPreset_stopsFirst(w, id) ==
    LET w1 == IF w.state.isPlaying THEN stopCycling(w) ELSE w IN
    IF id \notin Ids(w.presets) THEN [w1 EXCEPT !.ret = FALSE]
    ELSE
      LET w2 == applyPreset(w1, id, FALSE)
      IN [w2 EXCEPT !.state.isEditingPreset = TRUE,
                    !.state.currentPresetId = id, !.ret = TRUE]

startEditingPreset(w, id) ==
    IF id \notin Ids(w.presets) THEN [w EXCEPT !.ret = FALSE]
    ELSE
      LET w1 == IF w.state.isPlaying THEN stopCycling(w) ELSE w
          w2 == applyPreset(w1, id, FALSE)
      IN [w2 EXCEPT !.state.isEditingPreset = TRUE,
                    !.state.currentPresetId = id, !.ret = TRUE]

saveEditingPreset(w, opts) ==
    IF ~w.state.isEditingPreset \/ w.state.currentPresetId = NullId
    THEN [w EXCEPT !.ret = FALSE]
    ELSE
      LET w1 == updatePreset(w, w.state.currentPresetId, [options |-> opts])
      IN IF w1.ret THEN [w1 EXCEPT !.state.isEditingPreset = FALSE] ELSE w1

cancelEditingPreset(w) ==
    LET w1 == [w EXCEPT !.state.isEditingPreset = FALSE]
    IN IF w1.state.currentPresetId # NullId
       THEN applyPreset(w1, w1.state.currentPresetId, FALSE)
       ELSE w1

\* variant: the entry is moved in memory only
reorderPresets_unsaved(w, fromIndex, toIndex) ==
    IF fromIndex = toIndex \/ fromIndex < 0 \/ toIndex < 0 THEN w
    ELSE IF fromIndex >= Len(w.presets) \/ toIndex >= Len(w.presets) THEN w
    ELSE
      LET movedPreset == w.presets[fromIndex + 1]
          without == [i \in 1..(Len(w.presets) - 1) |->
                         IF i <= fromIndex THEN w.presets[i] ELSE w.presets[i + 1]]
          newPresets == [i \in 1..Len(w.presets) |->
                            IF i <= toIndex THEN without[i]
                            ELSE IF i = toIndex + 1 THEN movedPreset
                            ELSE without[i - 1]]
      IN [w EXCEPT !.presets = newPresets]

\* variant: the entries at the two indices change places
reorderPresets_swap(w, fromIndex, toIndex) ==
    IF fromIndex = toIndex \/ fromIndex < 0 \/ toIndex < 0 THEN w
    ELSE IF fromIndex >= Len(w.presets) \/ toIndex >= Len(w.presets) THEN w
    ELSE
      LET newPresets == [i \in 1..Len(w.presets) |->
                            IF i = fromIndex + 1 THEN w.presets[toIndex + 1]
                            ELSE IF i = toIndex + 1 THEN w.presets[fromIndex + 1]
                            ELSE w.presets[i]]
      IN savePresets([w EXCEPT !.presets = newPresets])

\* splice(fromIndex, 1) then splice(toIndex, 0, moved), 0-based indices
reorderPresets(w, fromIndex, toIndex) ==
    IF fromIndex = toIndex \/ fromIndex < 0 \/ toIndex < 0 THEN w
    ELSE IF fromIndex >= Len(w.presets) \/ toIndex >= Len(w.presets) THEN w
    ELSE
      LET movedPreset == w.presets[fromIndex + 1]
          without == [i \in 1..(Len(w.presets) - 1) |->
                         IF i <= fromIndex THEN w.presets[i] ELSE w.presets[i + 1]]
          newPresets == [i \in 1..Len(w.presets) |->
                            IF i <= toIndex THEN without[i]
                            ELSE IF i = toIndex + 1 THEN movedPreset
                            ELSE without[i - 1]]
      IN savePresets([w EXCEPT !.presets = newPresets])

loadPresets(w) == [w EXCEPT !.presets = PresetStorage_load(w.localStorage)]

\* the colour-interval callback only reconfigures ColorFilters
loadSettings(w) ==
    LET settings == SettingsStorage_load(w.settingsStorage)
        w1 == [w EXCEPT !.state.cycleInterval = settings.cycleDuration]
        w2 == setDuration(w1, settings.transitionDuration)
    IN [w2 EXCEPT !.colorIntervalDuration = settings.colorIntervalDuration]

setCycleInterval(w, intervalMs) ==
    saveSettings([w EXCEPT !.state.cycleInterval = Max(MinInterval, intervalMs)])

setColorIntervalDuration(w, intervalMs) ==
    saveSettings([w EXCEPT !.colorIntervalDuration = Max(MinInterval, intervalMs)])

\* the field initialisers of PresetManager and PresetTransitionManager
InitialState ==
    [currentPresetId |-> NullId, isPlaying |-> FALSE,
     isEditingPreset |-> FALSE, lastCycleTime |-> 0,
     cycleInterval |-> DefaultCycleInterval,
     hasUnsavedChanges |-> FALSE, lastAppliedOptions |-> NullOptions]

InitialTransitionManager ==
    [isTransitioning |-> FALSE, transitionStartTime |-> 0,
     transitionDuration |-> DefaultDuration, startValues |-> NullOptions,
     targetValues |-> NullOptions, animationFrame |-> NullHandle]

\* the page is loaded: every object is built anew, timers of the previous
\* page are gone, the two stored blobs are what they were
constructor(w) ==
    loadSettings(loadPresets(
        [w EXCEPT !.presets = <<>>, !.state = InitialState,
                  !.cycleTimeout = NullHandle, !.cycleTimers = {},
                  !.transitionManager = InitialTransitionManager,
                  !.animationFrames = {}, !.options = DefaultOptions,
                  !.colorIntervalDuration = DefaultColorInterval]))

(***************************************************************************)
(* MotionDetection: the frame pacer                                        *)
(***************************************************************************)
\* ms one tick can take: unmeasurably short, short, longer than the target
\* frame time, a whole second
ComputeTimes == {0, 20, 60, FpsWindow}

\* latest reading of Date.now() the pacer is explored at
PacerHorizon == FpsWindow + MaxFrames * 20

\* the pacer's fields with the environment of one call: ctxOk (getContext
\* returns a context), drawThrows / kernelThrows / ctorThrows (the canvas,
\* the kernel call or the kernel constructor throws), elapsed (ms the tick
\* takes between its two clock readings).  motion.motionDetector is the
\* kernel instance the pacer refers to (NullHandle: null), motion.kernels
\* the instances that were constructed and not freed, invoked the instance
\* whose process_motion_with_cache the call ran
PacerWorld(env) ==
    [motion |-> motion, pacerTimers |-> pacerTimers, wallClock |-> wallClock,
     env |-> env, ret |-> FALSE, kernelThrew |-> FALSE,
     invoked |-> NullHandle]

NoEnv ==
    [ctxOk |-> TRUE, drawThrows |-> FALSE, kernelThrows |-> FALSE,
     ctorThrows |-> FALSE, elapsed |-> 0]

setError(m, message) ==
    [m EXCEPT !.motion.hasError = TRUE, !.motion.errorMessage = message]

countFrames(m) ==
    IF ~m.motion.isActive THEN m
    ELSE
      LET frames == m.motion.framesInCurrentSecond + 1 IN
      IF m.wallClock - m.motion.timeOfFrameSecond >= FpsWindow
      THEN [m EXCEPT !.motion.fps = frames,
                     !.motion.framesInCurrentSecond = 0,
                     !.motion.timeOfFrameSecond = m.wallClock]
      ELSE [m EXCEPT !.motion.framesInCurrentSecond = frames]

\* variant: the delay is not clamped at 0
scheduleNextFrame_unclamped(m) ==
    IF ~m.motion.isActive THEN m
    ELSE
      LET computeTime == IF m.motion.computeTime # 0 THEN m.motion.computeTime
                         ELSE DefaultComputeTime
          targetFrameTime == 1000 \div TargetFps
      IN [m EXCEPT !.pacerTimers = Append(@, targetFrameTime - computeTime)]

\* the adaptive scheduling at the end of processMotionDetection
scheduleNextFrame(m) ==
    IF ~m.motion.isActive THEN m
    ELSE
      LET computeTime == IF m.motion.computeTime # 0 THEN m.motion.computeTime
                         ELSE DefaultComputeTime
          targetFrameTime == 1000 \div TargetFps
          nextFrameDelay == Max(0, targetFrameTime - computeTime)
      IN [m EXCEPT !.pacerTimers = Append(@, nextFrameDelay)]

\* motion.canvas is what the canvas element shows: nothing yet ("blank"),
\* the camera frame that ctx.drawImage put there ("video"), or the image
\* that ctx.putImageData put there ("output")
processMotionDetection(m) ==
    IF ~m.motion.isActive \/ ~m.motion.videoElement \/ ~m.motion.canvasElement
    THEN m
    ELSE IF ~m.env.ctxOk THEN setError(m, "Could not get canvas context")
    ELSE IF m.env.drawThrows
    THEN setError(m, "Motion detection processing error")
    ELSE IF m.motion.motionDetector # NullHandle /\ m.env.kernelThrows
    THEN setError([m EXCEPT !.motion.canvas = "video", !.kernelThrew = TRUE,
                            !.invoked = m.motion.motionDetector],
                  "WASM motion detection error")
    ELSE
      LET before == m.wallClock
          m1 == [m EXCEPT !.wallClock = before + m.env.elapsed,
                          !.motion.canvas = "output",
                          !.invoked = m.motion.motionDetector]
          m2 == countFrames(m1)
          m3 == [m2 EXCEPT !.motion.computeTime = m2.wallClock - before]
      IN scheduleNextFrame(m3)

start(m, videoElement, canvasElement) ==
    LET m0 == [m EXCEPT !.motion.videoElement = videoElement,
                        !.motion.canvasElement = canvasElement,
                        !.motion.hasError = FALSE,
                        !.motion.errorMessage = "null"]
    IN
    IF ~videoElement \/ ~canvasElement
    THEN [setError(m0, "Video or canvas element not ready") EXCEPT !.ret = FALSE]
    ELSE
      LET m1 == [m0 EXCEPT !.motion.isActive = TRUE] IN
      IF ~m.env.ctxOk
      THEN [setError(m1, "Could not get canvas context") EXCEPT !.ret = FALSE]
      ELSE
        \* assigning canvasElement.width clears the canvas
        LET m2 == [m1 EXCEPT !.motion.canvas = "blank"] IN
        IF m2.motion.MotionDetector /\ m2.motion.motionDetector = NullHandle
        THEN IF m.env.ctorThrows
             THEN [setError(m2, "Failed to initialize WASM motion detector")
                      EXCEPT !.ret = FALSE]
             ELSE LET k == FreshHandle(m2.motion.kernels) IN
                  [processMotionDetection(
                      [m2 EXCEPT !.motion.motionDetector = k,
                                 !.motion.kernels = @ \cup {k}])
                      EXCEPT !.ret = TRUE]
        ELSE [processMotionDetection(m2) EXCEPT !.ret = TRUE]

\* variant: the instance is freed and the reference to it is kept
stop_keepsReference(m) ==
    LET m1 == [m EXCEPT !.motion.isActive = FALSE]
        m2 == IF m1.motion.videoFrameCallbackId # 0
              THEN [m1 EXCEPT !.motion.videoFrameCallbackId = 0]
              ELSE m1
        m3 == IF m2.motion.motionDetector # NullHandle
              THEN [m2 EXCEPT !.motion.kernels = @ \ {m2.motion.motionDetector}]
              ELSE m2
    IN [m3 EXCEPT !.motion.hasError = FALSE, !.motion.errorMessage = "null"]

\* videoFrameCallbackId is never assigned, so the cancel branch of stop()
\* is skipped; timeouts armed by setTimeout are not touched
stop(m) ==
    LET m1 == [m EXCEPT !.motion.isActive = FALSE]
        m2 == IF m1.motion.videoFrameCallbackId # 0
              THEN [m1 EXCEPT !.motion.videoFrameCallbackId = 0]
              ELSE m1
        m3 == IF m2.motion.motionDetector # NullHandle
              THEN [m2 EXCEPT !.motion.kernels = @ \ {m2.motion.motionDetector},
                              !.motion.motionDetector = NullHandle]
              ELSE m2
    IN [m3 EXCEPT !.motion.hasError = FALSE, !.motion.errorMessage = "null"]

(***************************************************************************)
(* AnimateAngleChange: the drift generator of the movement angle           *)
(***************************************************************************)
AngleChoices == 361              \* Math.floor(Math.random() * 361)
MinAngleDuration == 1000         \* 1000 + Math.random() * 10000
AngleDurationSpread == 10000
DriftTickMs == MinAngleDuration \div 2

\* draws of Math.random(), as numerators over RandomResolution: the least,
\* the middle and the greatest value below 1
DriftDraws == {0, RandomResolution \div 2, RandomResolution - 1}

\* the generator's fields with the live set and the clock
DriftWorld ==
    [drift |-> drift, driftTimers |-> driftTimers, driftFrames |-> driftFrames,
     options |-> options, now |-> now, pushed |-> <<>>]

\* the callback of +page.svelte: motionDetection.options.movementAngle = angle
updateAngleCallback(d, angle) ==
    [d EXCEPT !.options.movementAngle = angle,
              !.pushed = Append(@, [movementAngle |-> angle])]

\* delay = 2000 + Math.random() * 5000 only decides when the timeout fires
scheduleNextAngleChange(d) ==
    LET h == FreshHandle(d.driftTimers)
    IN [d EXCEPT !.drift.angleAnimationTimeout = h,
                 !.driftTimers = @ \cup {h}]

\* variant: the animation that reaches its target arms no new timeout
animateAngleChange_lastOne(d) ==
    LET a == d.drift
        elapsed == d.now - a.angleAnimationStart
        t == Fraction(Min(elapsed, a.angleAnimationDuration),
                      a.angleAnimationDuration)
        currentAngle == lerp(a.angleAnimationFrom, a.angleAnimationTo, t)
        d1 == updateAngleCallback(d, currentAngle)
    IN IF t[1] < t[2]
       THEN LET h == FreshHandle(d1.driftFrames)
            IN [d1 EXCEPT !.drift.angleAnimationFrame = h,
                          !.driftFrames = @ \cup {h}]
       ELSE [updateAngleCallback(d1, a.angleAnimationTo)
                EXCEPT !.drift.angleAnimationFrame = NullHandle]

animateAngleChange(d) ==
    LET a == d.drift
        elapsed == d.now - a.angleAnimationStart
        t == Fraction(Min(elapsed, a.angleAnimationDuration),
                      a.angleAnimationDuration)
        currentAngle == lerp(a.angleAnimationFrom, a.angleAnimationTo, t)
        d1 == updateAngleCallback(d, currentAngle)
    IN IF t[1] < t[2]
       THEN LET h == FreshHandle(d1.driftFrames)
            IN [d1 EXCEPT !.drift.angleAnimationFrame = h,
                          !.driftFrames = @ \cup {h}]
       ELSE scheduleNextAngleChange(
                [updateAngleCallback(d1, a.angleAnimationTo)
                    EXCEPT !.drift.angleAnimationFrame = NullHandle])

\* the body of the timeout armed by scheduleNextAngleChange; angleDraw and
\* durationDraw are its two draws of Math.random()
angleTimeout(d, angleDraw, durationDraw) ==
    LET a == d.drift
        d1 == [d EXCEPT
                 !.drift.angleAnimationFrom = a.angleAnimationTo,
                 !.drift.angleAnimationTo =
                     ((angleDraw * AngleChoices) \div RandomResolution) * 1000,
                 !.drift.angleAnimationStart = d.now,
                 !.drift.angleAnimationDuration =
                     MinAngleDuration
                       + (durationDraw * AngleDurationSpread) \div RandomResolution]
        d2 == IF a.angleAnimationFrame # NullHandle
              THEN [d1 EXCEPT !.driftFrames = @ \ {a.angleAnimationFrame}]
              ELSE d1
        h == FreshHandle(d2.driftFrames)
    IN [d2 EXCEPT !.drift.angleAnimationFrame = h, !.driftFrames = @ \cup {h}]

AnimateAngleChange_start(d, initialAngle) ==
    scheduleNextAngleChange(
        [d EXCEPT !.drift.angleAnimationFrom = initialAngle,
                  !.drift.angleAnimationTo = initialAngle])

\* clearTimeout / cancelAnimationFrame on the two remembered handles; the
\* fields themselves are left as they are
AnimateAngleChange_destroy(d) ==
    LET d1 == IF d.drift.angleAnimationTimeout # NullHandle
              THEN [d EXCEPT !.driftTimers = @ \ {d.drift.angleAnimationTimeout}]
              ELSE d
    IN IF d1.drift.angleAnimationFrame # NullHandle
       THEN [d1 EXCEPT !.driftFrames = @ \ {d1.drift.angleAnimationFrame}]
       ELSE d1

(***************************************************************************)
(* Initial state: the objects as +page.svelte constructs them              *)
(***************************************************************************)
StoredPreset ==
    [id |-> 1, name |-> "A", description |-> "undefined",
     options |-> WaveOptions, createdAt |-> Date(0), updatedAt |-> Date(0)]

InitialBlobs == {AbsentBlob, CorruptBlob, JSON_stringify(<<StoredPreset>>)}

NoOp ==
    [op |-> "constructor", id |-> NullId, flag |-> FALSE, ok |-> TRUE,
     accept |-> TRUE, prev |-> NullId, busy |-> FALSE, from |-> -1, to |-> -1,
     arg |-> 0, calls |-> 0, kernelThrew |-> FALSE, invoked |-> NullHandle]

\* the constructor: loadPresets() reads the blob, loadSettings() hands the
\* stored presetTransitionDuration to setDuration; the settings explored
\* hold the shortest duration setDuration lets through
InitManager(blobs) ==
    /\ localStorage \in blobs
    /\ presets = PresetStorage_load(localStorage)
    /\ state = InitialState
    /\ settingsStorage =
           SettingsBlob([defaultSettings EXCEPT !.transitionDuration = MinDuration])
    /\ colorIntervalDuration = DefaultColorInterval
    /\ cycleTimeout = NullHandle
    /\ cycleTimers = {}
    /\ transitionManager =
           [InitialTransitionManager EXCEPT !.transitionDuration = MinDuration]
    /\ animationFrames = {}
    /\ options = DefaultOptions
    /\ pushed = <<>>

InitPacer ==
    /\ motion = [isActive |-> FALSE, hasError |-> FALSE, errorMessage |-> "null",
                 fps |-> 0, computeTime |-> 0, videoElement |-> FALSE,
                 canvasElement |-> FALSE, videoFrameCallbackId |-> 0,
                 framesInCurrentSecond |-> 0, timeOfFrameSecond |-> 0,
                 MotionDetector |-> FALSE, motionDetector |-> NullHandle,
                 kernels |-> {}, canvas |-> "blank"]
    /\ pacerTimers = <<>>

\* the fields of a generator that was constructed and not started
InitialDrift ==
    [drift |-> [angleAnimationTimeout |-> NullHandle,
                angleAnimationFrame |-> NullHandle, angleAnimationStart |-> 0,
                angleAnimationDuration |-> 0, angleAnimationFrom |-> 0,
                angleAnimationTo |-> 0],
     driftTimers |-> {}, driftFrames |-> {}, options |-> DefaultOptions,
     now |-> 0, pushed |-> <<>>]

InitMotion ==
    /\ InitPacer
    /\ drift = InitialDrift.drift
    /\ driftTimers = {}
    /\ driftFrames = {}

\* onMount of +page.svelte has started the generator
InitMounted ==
    LET d == AnimateAngleChange_start(InitialDrift, DefaultOptions.movementAngle)
    IN /\ InitPacer
       /\ drift = d.drift
       /\ driftTimers = d.driftTimers
       /\ driftFrames = d.driftFrames

Init ==
    /\ InitManager({AbsentBlob})
    /\ InitMotion
    /\ storeFaulty = FALSE
    /\ now = 0
    /\ wallClock = 0
    /\ lastOp = NoOp

(***************************************************************************)
(* Actions of the preset orchestrator and the transition engine            *)
(***************************************************************************)
Commit(w, op) ==
    /\ presets' = w.presets
    /\ state' = w.state
    /\ cycleTimeout' = w.cycleTimeout
    /\ cycleTimers' = w.cycleTimers
    /\ transitionManager' = w.transitionManager
    /\ animationFrames' = w.animationFrames
    /\ options' = w.options
    /\ localStorage' = w.localStorage
    /\ settingsStorage' = w.settingsStorage
    /\ colorIntervalDuration' = w.colorIntervalDuration
    /\ pushed' = w.pushed
    /\ lastOp' = op
    /\ UNCHANGED <<storeFaulty, now, wallClock, motion, pacerTimers, driftVars>>

\* the record of a handler's run: its name, id argument (or the id it chose),
\* boolean argument, return value, whether the store accepted its write, and,
\* where a property needs them, currentPresetId and isTransitioning as they
\* were when the handler was entered (for stopCycling the boolean is
\* isPlaying as it was when the handler was entered); from and to are the
\* arguments of
\* reorderPresets; arg is the number handed to setDuration (by the caller or
\* by loadSettings) and calls the number of onDurationChange calls it made;
\* kernelThrew tells that the tick ran the catch block of the kernel call and
\* invoked names the kernel instance the tick called (NullHandle: none)
Op(name, id, flag, ok, accept) ==
    [op |-> name, id |-> id, flag |-> flag, ok |-> ok, accept |-> accept,
     prev |-> IF name \in {"startCycling", "cycleTimer", "deletePreset"}
              THEN state.currentPresetId ELSE NullId,
     busy |-> IF name \in {"applyPreset", "stopCycling"}
              THEN transitionManager.isTransitioning ELSE FALSE,
     from |-> -1, to |-> -1, arg |-> 0, calls |-> 0, kernelThrew |-> FALSE,
     invoked |-> NullHandle]

\* whether setItem accepts the write of this handler
Accepts == IF storeFaulty THEN BOOLEAN ELSE {TRUE}

PresetIds == 1..(MaxPresets + 1)

CreatePreset ==
    \E opts \in OptionChoices, accept \in Accepts :
        /\ Len(presets) < MaxPresets
        /\ LET w == createPreset(World(accept, 0), NewName, opts, "undefined")
           IN Commit(w, Op("createPreset", w.ret, FALSE, TRUE, accept))

UpdatePresetName ==
    \E id \in PresetIds, name \in Names, accept \in Accepts :
        LET w == updatePresetName(World(accept, 0), id, name)
        IN Commit(w, Op("updatePreset", id, FALSE, w.ret, accept))

DeletePreset ==
    \E id \in PresetIds, accept \in Accepts :
        LET w == deletePreset(World(accept, 0), id)
        IN Commit(w, Op("deletePreset", id, FALSE, w.ret, accept))

SelectPreset ==
    \E id \in PresetIds :
        LET w == selectPreset(World(TRUE, 0), id)
        IN Commit(w, Op("selectPreset", id, FALSE, w.ret, TRUE))

ApplyPreset ==
    \E id \in PresetIds, useTransition \in BOOLEAN :
        LET w == applyPreset(World(TRUE, 0), id, useTransition)
        IN Commit(w, Op("applyPreset", id, useTransition, w.ret, TRUE))

\* the $effect of +page.svelte: checkForUnsavedChanges(live set)
CheckForUnsavedChanges ==
    LET w == checkForUnsavedChanges(World(TRUE, 0), options)
    IN Commit(w, Op("checkForUnsavedChanges", NullId, FALSE, TRUE, TRUE))

UpdateCurrentPreset ==
    \E opts \in OptionChoices, accept \in Accepts :
        LET w == updateCurrentPreset(World(accept, 0), opts)
        IN Commit(w, Op("updateCurrentPreset", state.currentPresetId, FALSE,
                        w.ret, accept))

CreatePresetFromCurrent ==
    \E opts \in OptionChoices, accept \in Accepts :
        /\ Len(presets) < MaxPresets
        /\ LET w == createPresetFromCurrent(World(accept, 0), NewName, opts,
                                            "undefined")
           IN Commit(w, Op("createPresetFromCurrent", w.ret, FALSE, TRUE, accept))

DiscardChanges ==
    LET w == discardChanges(World(TRUE, 0))
    IN Commit(w, Op("discardChanges", state.currentPresetId, FALSE, TRUE, TRUE))

StartCycling ==
    \E rand \in 0..(RandomSteps - 1) :
        /\ Cardinality(cycleTimers) < MaxCycleTimers
        /\ LET w == startCycling(World(TRUE, rand))
           IN Commit(w, Op("startCycling", w.state.currentPresetId, TRUE,
                           Len(presets) # 0, TRUE))

StopCycling ==
    LET w == stopCycling(World(TRUE, 0))
    IN Commit(w, Op("stopCycling", NullId, state.isPlaying, TRUE, TRUE))

\* a pending cycle timeout fires and runs cycleToNextPreset
CycleTimerFires ==
    \E h \in cycleTimers, rand \in 0..(RandomSteps - 1) :
        LET w0 == World(TRUE, rand)
            w == cycleToNextPreset([w0 EXCEPT !.cycleTimers = @ \ {h}])
        IN Commit(w, Op("cycleTimer", w.state.currentPresetId, TRUE,
                        Len(presets) # 0, TRUE))

StartEditingPreset ==
    \E id \in PresetIds :
        LET w == startEditingPreset(World(TRUE, 0), id)
        IN Commit(w, Op("startEditingPreset", id, FALSE, w.ret, TRUE))

SaveEditingPreset ==
    \E opts \in OptionChoices, accept \in Accepts :
        LET w == saveEditingPreset(World(accept, 0), opts)
        IN Commit(w, Op("saveEditingPreset", state.currentPresetId, FALSE,
                        w.ret, accept))

CancelEditingPreset ==
    LET w == cancelEditingPreset(World(TRUE, 0))
    IN Commit(w, Op("cancelEditingPreset", state.currentPresetId, FALSE, TRUE, TRUE))

\* indices from one below the first entry to one past the last
ReorderPresets ==
    \E fromIndex \in -1..Len(presets), toIndex \in -1..Len(presets),
       accept \in Accepts :
        LET w == reorderPresets(World(accept, 0), fromIndex, toIndex)
        IN Commit(w, [Op("reorderPresets", NullId, FALSE,
                         w.presets # presets, accept)
                         EXCEPT !.from = fromIndex, !.to = toIndex])

SetDuration ==
    \E durationMs \in {MinDuration \div 2, 2 * MinDuration} :
        LET w == setDuration(World(TRUE, 0), durationMs)
        IN Commit(w, [Op("setDuration", NullId, FALSE, TRUE, TRUE)
                         EXCEPT !.arg = durationMs,
                                !.calls = w.durationChanges])

\* a pending animation frame fires and runs animate
AnimationFrame ==
    \E h \in animationFrames :
        LET w0 == World(TRUE, 0)
            w == animate([w0 EXCEPT !.animationFrames = @ \ {h}])
        IN Commit(w, Op("animate", NullId,
                        now - transitionManager.transitionStartTime
                            >= transitionManager.transitionDuration,
                        transitionManager.isTransitioning, TRUE))

\* the user moves sliders of MotionDetectionControls
UserEdit ==
    \E o \in EditChoices :
        /\ options # o
        /\ options' = o
        /\ pushed' = <<>>
        /\ lastOp' = Op("userEdit", NullId, FALSE, TRUE, TRUE)
        /\ UNCHANGED <<presets, state, cycleTimeout, cycleTimers,
                       transitionManager, animationFrames, localStorage,
                       storeFaulty, now, wallClock, motion, pacerTimers,
                       driftVars, settingsVars>>

Tick ==
    /\ now < MaxTicks * TickMs
    /\ now' = now + TickMs
    /\ pushed' = <<>>
    /\ lastOp' = Op("tick", NullId, FALSE, TRUE, TRUE)
    /\ UNCHANGED <<presets, state, cycleTimeout, cycleTimers, transitionManager,
                   animationFrames, options, localStorage, storeFaulty,
                   wallClock, motion, pacerTimers, driftVars, settingsVars>>

\* Date.now() moves on by one millisecond
WallTick ==
    /\ wallClock < MaxWallTicks
    /\ wallClock' = wallClock + 1
    /\ pushed' = <<>>
    /\ lastOp' = Op("wallTick", NullId, FALSE, TRUE, TRUE)
    /\ UNCHANGED <<presets, state, cycleTimeout, cycleTimers, transitionManager,
                   animationFrames, options, localStorage, storeFaulty, now,
                   motion, pacerTimers, driftVars, settingsVars>>

Next ==
    \/ CreatePreset
    \/ DeletePreset
    \/ SelectPreset
    \/ ApplyPreset
    \/ CheckForUnsavedChanges
    \/ UpdateCurrentPreset
    \/ CreatePresetFromCurrent
    \/ DiscardChanges
    \/ StartCycling
    \/ StopCycling
    \/ CycleTimerFires
    \/ StartEditingPreset
    \/ SaveEditingPreset
    \/ CancelEditingPreset
    \/ ReorderPresets
    \/ AnimationFrame
    \/ UserEdit

Spec == Init /\ [][Next]_vars

(***************************************************************************)
(* The transition engine under the orchestrator, with the clock running:   *)
(* two stored presets (the wave / direction pair of the spec's scenario)   *)
(***************************************************************************)
SecondStoredPreset ==
    [id |-> 2, name |-> "B", description |-> "undefined",
     options |-> DirectionOptions, createdAt |-> Date(0), updatedAt |-> Date(0)]

InitTransition ==
    /\ InitManager({JSON_stringify(<<StoredPreset, SecondStoredPreset>>)})
    /\ InitMotion
    /\ storeFaulty = FALSE
    /\ now = 0
    /\ wallClock = 0
    /\ lastOp = NoOp

NextTransition ==
    \/ ApplyPreset
    \/ DiscardChanges
    \/ StartCycling
    \/ StopCycling
    \/ CycleTimerFires
    \/ SetDuration
    \/ AnimationFrame
    \/ UserEdit
    \/ Tick

SpecTransition == InitTransition /\ [][NextTransition]_vars

(***************************************************************************)
(* The transition engine called directly, with the clock running           *)
(***************************************************************************)
TargetChoices == {WaveOptions, DirectionOptions}

\* startTransition(currentValues, targetValues) from the live set
StartTransition ==
    \E targetValues \in TargetChoices :
        LET w == startTransition(World(TRUE, 0), options, targetValues)
        IN Commit(w, Op("startTransition", NullId, TRUE, TRUE, TRUE))

CancelTransition ==
    LET w == cancelTransition(World(TRUE, 0))
    IN Commit(w, Op("cancelTransition", NullId,
                    transitionManager.isTransitioning, TRUE, TRUE))

ApplyImmediately ==
    \E o \in TargetChoices :
        LET w == applyImmediately(World(TRUE, 0), o)
        IN Commit(w, Op("applyImmediately", NullId,
                        transitionManager.isTransitioning, TRUE, TRUE))

\* PresetTransitionManager.destroy: cancelTransition
DestroyTransitionManager ==
    LET w == cancelTransition(World(TRUE, 0))
    IN Commit(w, Op("destroy", NullId, transitionManager.isTransitioning,
                    TRUE, TRUE))

NextEngine ==
    \/ StartTransition
    \/ CancelTransition
    \/ ApplyImmediately
    \/ DestroyTransitionManager
    \/ AnimationFrame
    \/ Tick

SpecEngine == Init /\ [][NextEngine]_vars

(***************************************************************************)
(* The preset collection and its persistence, with a store that may        *)
(* refuse writes                                                           *)
(***************************************************************************)
InitStore ==
    /\ InitManager(InitialBlobs)
    /\ InitMotion
    /\ storeFaulty = TRUE
    /\ now = 0
    /\ wallClock = 0
    /\ lastOp = NoOp

NextStore ==
    \/ CreatePreset
    \/ UpdatePresetName
    \/ DeletePreset
    \/ ReorderPresets
    \/ WallTick

SpecStore == InitStore /\ [][NextStore]_vars

(***************************************************************************)
(* Cycling over the stored collection (none or one preset) with both       *)
(* clocks running                                                          *)
(***************************************************************************)
NextCycle ==
    \/ StartCycling
    \/ StopCycling
    \/ CycleTimerFires
    \/ AnimationFrame
    \/ CheckForUnsavedChanges
    \/ Tick
    \/ WallTick

SpecCycle == InitStore /\ [][NextCycle]_vars

(***************************************************************************)
(* Page loads over entries of the store that were not written by the page  *)
(***************************************************************************)
\* the entry of the presets is written from outside the page, or the store
\* refuses to be read
EditPresets ==
    \E kind \in {"unreadable", "corrupt", "value", "scalars"} :
        /\ localStorage.kind # kind
        /\ LET items == IF kind = "scalars" THEN <<1>> ELSE <<>>
               w == [World(TRUE, 0) EXCEPT
                        !.localStorage = [kind |-> kind, items |-> items]]
           IN Commit(w, Op("editPresets", NullId, FALSE, TRUE, TRUE))

(***************************************************************************)
(* The settings and their persistence across page loads                    *)
(***************************************************************************)
IntervalChoices == {MinInterval \div 2, 2 * DefaultColorInterval}

SetCycleInterval ==
    \E intervalMs \in IntervalChoices, accept \in Accepts :
        LET w == setCycleInterval(World(accept, 0), intervalMs)
        IN Commit(w, Op("setCycleInterval", NullId, FALSE, TRUE, accept))

SetColorIntervalDuration ==
    \E intervalMs \in IntervalChoices, accept \in Accepts :
        LET w == setColorIntervalDuration(World(accept, 0), intervalMs)
        IN Commit(w, Op("setColorIntervalDuration", NullId, FALSE, TRUE, accept))

\* the user clears the site data of the browser
ClearSettings ==
    /\ settingsStorage # AbsentSettings
    /\ LET w == [World(TRUE, 0) EXCEPT !.settingsStorage = AbsentSettings]
       IN Commit(w, Op("clearSettings", NullId, FALSE, TRUE, TRUE))

\* the page is loaded again and the orchestrator is constructed
Restart ==
    \E accept \in Accepts :
        LET w == constructor(World(accept, 0))
        IN Commit(w, [Op("constructor", NullId, FALSE, TRUE, accept)
                         EXCEPT !.arg = SettingsStorage_load(settingsStorage)
                                            .transitionDuration,
                                !.calls = w.durationChanges])

\* the entry is written from outside the page (another build, the developer
\* tools) with a duration below the minimum
EditSettings ==
    /\ settingsStorage.kind # "json"
         \/ settingsStorage.transitionDuration >= MinDuration
    /\ LET w == [World(TRUE, 0) EXCEPT !.settingsStorage =
                    SettingsBlob([defaultSettings EXCEPT
                                     !.transitionDuration = MinDuration \div 2])]
       IN Commit(w, Op("editSettings", NullId, FALSE, TRUE, TRUE))

NextSettings ==
    \/ SetDuration
    \/ SetCycleInterval
    \/ SetColorIntervalDuration
    \/ ClearSettings
    \/ EditSettings
    \/ Restart
    \/ CreatePreset
    \/ SelectPreset

SpecSettings == InitStore /\ [][NextSettings]_vars

NextLoad ==
    \/ EditPresets
    \/ EditSettings
    \/ ClearSettings
    \/ SetDuration
    \/ SetCycleInterval
    \/ Restart

SpecLoad == InitStore /\ [][NextLoad]_vars

\* the entry is written from outside the page with a cycleDuration that is
\* a number below the minimum of setCycleInterval
EditCycleDuration ==
    /\ IF settingsStorage.kind = "json"
       THEN settingsStorage.cycleDuration >= MinInterval
       ELSE TRUE
    /\ LET w == [World(TRUE, 0) EXCEPT !.settingsStorage =
                    SettingsBlob([defaultSettings EXCEPT
                                     !.cycleDuration = MinInterval \div 2])]
       IN Commit(w, Op("editCycleDuration", NullId, FALSE, TRUE, TRUE))

NextCycleSettings ==
    \/ EditCycleDuration
    \/ ClearSettings
    \/ SetCycleInterval
    \/ SetDuration
    \/ Restart
    \/ CreatePreset

SpecCycleSettings == InitStore /\ [][NextCycleSettings]_vars

(***************************************************************************)
(* Change detection: the user moves one control away from the applied      *)
(* preset and the $effect of the page runs checkForUnsavedChanges          *)
(***************************************************************************)
\* distances from the applied value, in units of 1/1000: inside, on and just
\* beyond each tolerance of checkForUnsavedChanges
Nudges == {-1001, -1000, -11, -10, -5, 5, 10, 11, 50, 51, 100, 101, 1000, 1001}

MoveTypes == {"direction", "radial", "spiral", "wave"}

SliderEdit ==
    \E f \in ContinuousFields, d \in Nudges :
        /\ state.lastAppliedOptions # NullOptions
        /\ options' = [state.lastAppliedOptions EXCEPT ![f] = @ + d]
        /\ pushed' = <<>>
        /\ lastOp' = Op("userEdit", NullId, FALSE, TRUE, TRUE)
        /\ UNCHANGED <<presets, state, cycleTimeout, cycleTimers,
                       transitionManager, animationFrames, localStorage,
                       storeFaulty, now, wallClock, motion, pacerTimers,
                       driftVars, settingsVars>>

DiscreteEdit ==
    \E moveType \in MoveTypes, waveDirection \in {0, 1} :
        /\ state.lastAppliedOptions # NullOptions
        /\ options' = [state.lastAppliedOptions EXCEPT
                          !.moveType = moveType, !.waveDirection = waveDirection]
        /\ pushed' = <<>>
        /\ lastOp' = Op("userEdit", NullId, FALSE, TRUE, TRUE)
        /\ UNCHANGED <<presets, state, cycleTimeout, cycleTimers,
                       transitionManager, animationFrames, localStorage,
                       storeFaulty, now, wallClock, motion, pacerTimers,
                       driftVars, settingsVars>>

NextUnsaved ==
    \/ SelectPreset
    \/ StartEditingPreset
    \/ CancelEditingPreset
    \/ DiscardChanges
    \/ SliderEdit
    \/ DiscreteEdit
    \/ CheckForUnsavedChanges

SpecUnsaved == InitTransition /\ [][NextUnsaved]_vars

(***************************************************************************)
(* The operations that take a preset id, with two stored presets and       *)
(* cycling                                                                 *)
(***************************************************************************)
NextIds ==
    \/ UpdatePresetName
    \/ DeletePreset
    \/ SelectPreset
    \/ ApplyPreset
    \/ StartEditingPreset
    \/ StartCycling
    \/ StopCycling

SpecIds == InitTransition /\ [][NextIds]_vars

(***************************************************************************)
(* Reordering a collection of three stored presets                         *)
(***************************************************************************)
ThirdStoredPreset ==
    [id |-> 3, name |-> "A", description |-> "undefined",
     options |-> DefaultOptions, createdAt |-> Date(0), updatedAt |-> Date(0)]

InitReorder ==
    /\ InitManager({JSON_stringify(<<StoredPreset, SecondStoredPreset,
                                      ThirdStoredPreset>>)})
    /\ InitMotion
    /\ storeFaulty = TRUE
    /\ now = 0
    /\ wallClock = 0
    /\ lastOp = NoOp

NextReorder ==
    \/ ReorderPresets
    \/ DeletePreset
    \/ SelectPreset

SpecReorder == InitReorder /\ [][NextReorder]_vars

(***************************************************************************)
(* A preset created from the live set, and the writers of the live set     *)
(***************************************************************************)
\* createPresetFromCurrentSettings of +page.svelte
CreatePresetFromCurrentSettings ==
    \E accept \in Accepts :
        /\ Len(presets) < MaxPresets
        /\ LET w == createPreset(World(accept, 0), NewName, LiveOptions,
                                 "undefined")
           IN Commit(w, Op("createPresetFromCurrentSettings", w.ret, FALSE,
                           TRUE, accept))

InitSnapshot ==
    /\ InitManager({JSON_stringify(<<StoredPreset>>)})
    /\ InitMounted
    /\ storeFaulty = FALSE
    /\ now = 0
    /\ wallClock = 0
    /\ lastOp = NoOp

(***************************************************************************)
(* Actions of the frame pacer                                              *)
(***************************************************************************)
CommitPacer(m, op) ==
    /\ motion' = m.motion
    /\ pacerTimers' = m.pacerTimers
    /\ wallClock' = m.wallClock
    /\ lastOp' = op
    /\ UNCHANGED <<managerVars, storeFaulty, now, driftVars>>

\* setupWasm: the polling interval finds the loaded WebAssembly class
SetupWasm ==
    /\ ~motion.MotionDetector
    /\ CommitPacer([PacerWorld(NoEnv) EXCEPT !.motion.MotionDetector = TRUE],
                   Op("setupWasm", NullId, FALSE, TRUE, TRUE))

Start ==
    \E videoElement \in BOOLEAN, canvasElement \in BOOLEAN, ctxOk \in BOOLEAN,
       ctorThrows \in BOOLEAN, elapsed \in ComputeTimes :
        /\ Len(pacerTimers) < MaxPacerTimers
        /\ motion.framesInCurrentSecond < MaxFrames
        /\ wallClock + elapsed <= PacerHorizon
        /\ LET env == [NoEnv EXCEPT !.ctxOk = ctxOk, !.ctorThrows = ctorThrows,
                                    !.elapsed = elapsed]
               m == start(PacerWorld(env), videoElement, canvasElement)
           IN CommitPacer(m, [Op("start", NullId, FALSE, m.ret, TRUE)
                                 EXCEPT !.kernelThrew = m.kernelThrew,
                                        !.invoked = m.invoked])

Stop ==
    CommitPacer(stop(PacerWorld(NoEnv)), Op("stop", NullId, FALSE, TRUE, TRUE))

\* a pending pacer timeout fires and runs processMotionDetection
PacerTimerFires ==
    \E i \in 1..Len(pacerTimers), ctxOk \in BOOLEAN, drawThrows \in BOOLEAN,
       kernelThrows \in BOOLEAN, elapsed \in ComputeTimes :
        /\ motion.framesInCurrentSecond < MaxFrames
        /\ wallClock + elapsed <= PacerHorizon
        /\ LET env == [NoEnv EXCEPT !.ctxOk = ctxOk, !.drawThrows = drawThrows,
                                    !.kernelThrows = kernelThrows,
                                    !.elapsed = elapsed]
               m0 == PacerWorld(env)
               remaining == [j \in 1..(Len(pacerTimers) - 1) |->
                                IF j < i THEN pacerTimers[j] ELSE pacerTimers[j + 1]]
               m == processMotionDetection([m0 EXCEPT !.pacerTimers = remaining])
           IN CommitPacer(m, [Op("processMotionDetection", NullId,
                                 motion.isActive, TRUE, TRUE)
                                 EXCEPT !.kernelThrew = m.kernelThrew,
                                        !.invoked = m.invoked])

NextPacer ==
    \/ SetupWasm
    \/ Start
    \/ Stop
    \/ PacerTimerFires

SpecPacer == Init /\ [][NextPacer]_vars

(***************************************************************************)
(* Actions of the drift generator                                          *)
(***************************************************************************)
CommitDrift(d, op) ==
    /\ drift' = d.drift
    /\ driftTimers' = d.driftTimers
    /\ driftFrames' = d.driftFrames
    /\ options' = d.options
    /\ pushed' = d.pushed
    /\ lastOp' = op
    /\ UNCHANGED <<presets, state, cycleTimeout, cycleTimers, transitionManager,
                   animationFrames, localStorage, storeFaulty, now, wallClock,
                   motion, pacerTimers, settingsVars>>

\* onMount: angleAnimation.start(motionDetection.options.movementAngle)
DriftStart ==
    /\ Cardinality(driftTimers) < MaxDriftTimers
    /\ CommitDrift(AnimateAngleChange_start(DriftWorld, options.movementAngle),
                   Op("driftStart", NullId, FALSE, TRUE, TRUE))

\* a pending drift timeout fires; the two Math.random() results are drawn
\* from the given sets
DriftTimerFiresWith(angleDraws, durationDraws) ==
    \E h \in driftTimers, angleDraw \in angleDraws,
       durationDraw \in durationDraws :
        CommitDrift(angleTimeout([DriftWorld EXCEPT !.driftTimers = @ \ {h}],
                                 angleDraw, durationDraw),
                    Op("driftTimer", NullId, FALSE, TRUE, TRUE))

DriftTimerFires == DriftTimerFiresWith(DriftDraws, {0, RandomResolution - 1})

\* the same with one target angle and the shortest duration
DriftTimerFiresOnce == DriftTimerFiresWith({RandomResolution \div 2}, {0})

\* a pending drift animation frame fires and runs animateAngleChange
DriftFrame ==
    \E h \in driftFrames :
        /\ Cardinality(driftTimers) < MaxDriftTimers
        /\ CommitDrift(animateAngleChange([DriftWorld EXCEPT !.driftFrames = @ \ {h}]),
                       Op("animateAngleChange", NullId,
                          now - drift.angleAnimationStart
                              >= drift.angleAnimationDuration,
                          TRUE, TRUE))

DriftDestroy ==
    CommitDrift(AnimateAngleChange_destroy(DriftWorld),
                Op("driftDestroy", NullId, FALSE, TRUE, TRUE))

DriftTick ==
    /\ now < MaxDriftTicks * DriftTickMs
    /\ now' = now + DriftTickMs
    /\ pushed' = <<>>
    /\ lastOp' = Op("tick", NullId, FALSE, TRUE, TRUE)
    /\ UNCHANGED <<presets, state, cycleTimeout, cycleTimers, transitionManager,
                   animationFrames, options, localStorage, storeFaulty,
                   wallClock, motion, pacerTimers, driftVars, settingsVars>>

NextDrift ==
    \/ DriftStart
    \/ DriftTimerFires
    \/ DriftFrame
    \/ DriftDestroy
    \/ DriftTick

SpecDrift == Init /\ [][NextDrift]_vars

(***************************************************************************)
(* The drift generator after onMount has started it, left to run: its      *)
(* timeouts fire, its frames fire and time passes                          *)
(***************************************************************************)
InitDriftLoop ==
    /\ InitManager({AbsentBlob})
    /\ InitMounted
    /\ storeFaulty = FALSE
    /\ now = 0
    /\ wallClock = 0
    /\ lastOp = NoOp

NextDriftLoop ==
    \/ DriftTimerFires
    \/ DriftFrame
    \/ DriftTick

SpecDriftLoop == InitDriftLoop /\ [][NextDriftLoop]_vars

\* the browser runs every timeout and every animation frame that stays
\* pending, and performance.now() goes on
FairDriftLoop ==
    /\ SpecDriftLoop
    /\ WF_vars(DriftTimerFires)
    /\ WF_vars(DriftFrame)
    /\ WF_vars(DriftTick)

\* the user, the transition engine and the drift generator write the live set
NextSnapshot ==
    \/ CreatePresetFromCurrentSettings
    \/ UserEdit
    \/ ApplyPreset
    \/ AnimationFrame
    \/ Tick
    \/ DriftTimerFiresOnce
    \/ DriftFrame

SpecSnapshot == InitSnapshot /\ [][NextSnapshot]_vars

(***************************************************************************)
(* The arithmetic of one animation step in binary floating point.  The     *)
(* engine computes lerp and easeInOut on IEEE doubles, which round every   *)
(* result to 53 significant bits; here a number is an integer count of     *)
(* units of 2^-FractionBits and every result is rounded to MantissaBits    *)
(* significant bits, to nearest, ties to even.                             *)
(***************************************************************************)
MantissaBits == 4        \* significant bits a number keeps
FractionBits == 6        \* the unit is 2^-FractionBits

RECURSIVE Pow2(_)
Pow2(n) == IF n = 0 THEN 1 ELSE 2 * Pow2(n - 1)

\* number of bits of |z|
RECURSIVE BitLen(_)
BitLen(z) == IF z = 0 THEN 0 ELSE 1 + BitLen(Abs(z) \div 2)

\* the multiple of q nearest to z, the even one of two equally near
RoundTo(z, q) ==
    LET lo == (z \div q) * q
        r == z - lo
    IN IF 2 * r < q THEN lo
       ELSE IF 2 * r > q THEN lo + q
       ELSE IF (lo \div q) % 2 = 0 THEN lo ELSE lo + q

\* the representable number nearest to z units
Round(z) == RoundTo(z, Pow2(Max(0, BitLen(z) - MantissaBits)))

One == Pow2(FractionBits)

fadd(x, y) == Round(x + y)

fsub(x, y) == Round(x - y)

\* the product has 2 * FractionBits fraction bits before it is rounded
fmul(x, y) ==
    LET z == x * y
    IN RoundTo(z, Pow2(Max(FractionBits, BitLen(z) - MantissaBits))) \div One

\* the representable numbers from 0 to 1
UnitFloats == {Round(z) : z \in 0..One}

\* variant: the interpolation ends on the target whatever the rounding
lerpFloat_exactAtEnd(startValue, endValue, t) ==
    IF t = One THEN endValue
    ELSE fadd(startValue, fmul(fsub(endValue, startValue), t))

\* start + (end - start) * t
lerpFloat(startValue, endValue, t) ==
    fadd(startValue, fmul(fsub(endValue, startValue), t))

\* t < 0.5 ? 2 * t * t : -1 + (4 - 2 * t) * t
easeInOutFloat(t) ==
    IF 2 * t < One THEN fmul(fmul(2 * One, t), t)
    ELSE fadd(-One, fmul(fsub(4 * One, fmul(2 * One, t)), t))

\* one continuous field of interpolatedValues as animate computes it from
\* the two snapshots and the raw progress, which Math.min keeps at most 1
InterpolatedValue(startValue, targetValue, rawProgress) ==
    LET progress == easeInOutFloat(rawProgress)
    IN [start |-> startValue, target |-> targetValue,
        rawProgress |-> rawProgress, progress |-> progress,
        value |-> lerpFloat(startValue, targetValue, progress)]

CommitInterpolation(value, op) ==
    /\ pushed' = <<value>>
    /\ lastOp' = op
    /\ UNCHANGED <<presets, state, cycleTimeout, cycleTimers,
                   transitionManager, animationFrames, options, localStorage,
                   storeFaulty, now, wallClock, motion, pacerTimers,
                   driftVars, settingsVars>>

\* startTransition takes the two snapshots of a field and runs the first
\* step, at which no time has passed
InterpolationStarts ==
    \E startValue \in UnitFloats, targetValue \in UnitFloats :
        /\ IF pushed = <<>> THEN TRUE ELSE pushed[1].rawProgress = One
        /\ CommitInterpolation(InterpolatedValue(startValue, targetValue, 0),
                               Op("startTransition", NullId, TRUE, TRUE, TRUE))

\* an animation frame of the transition fires after more time has passed
InterpolationFrame ==
    \E rawProgress \in UnitFloats :
        /\ pushed # <<>>
        /\ rawProgress > pushed[1].rawProgress
        /\ CommitInterpolation(
               InterpolatedValue(pushed[1].start, pushed[1].target, rawProgress),
               Op("animate", NullId, rawProgress = One, TRUE, TRUE))

NextInterpolation ==
    \/ InterpolationStarts
    \/ InterpolationFrame

SpecInterpolation == Init /\ [][NextInterpolation]_vars

(***************************************************************************)
(* Properties                                                              *)
(***************************************************************************)
CycleOps == {"startCycling", "cycleTimer"}

\* C1 (Spec): in every reachable state isPlaying and isEditingPreset are
\* not both true.  startCycling does not look at isEditingPreset, so this
\* fails: createPreset, startEditingPreset(id), startCycling().
C1_CyclingExcludesEditing ==
    ~(state.isPlaying /\ state.isEditingPreset)

\* C2 (Spec): currentPresetId is null or the id of a preset of the
\* collection; deletePreset(id) of the current preset leaves it null.
C2_CurrentPresetIsStored ==
    /\ state.currentPresetId = NullId \/ state.currentPresetId \in Ids(presets)
    /\ (lastOp.op = "deletePreset" /\ lastOp.ok /\ lastOp.prev = lastOp.id)
           => state.currentPresetId = NullId

C2_Witness ==
    /\ lastOp.op = "deletePreset"
    /\ lastOp.ok
    /\ lastOp.prev = lastOp.id
    /\ state.currentPresetId = NullId
    /\ Len(presets) > 0

\* C3 (Spec): with more than one preset stored and currentPresetId naming
\* one of them, a cycle step (run by startCycling or by a cycle timeout)
\* applies a preset other than the one that was current when it began.
C3_CycleStepChangesPreset ==
    (lastOp.op \in CycleOps /\ Len(presets) > 1 /\ lastOp.prev \in Ids(presets))
        => /\ state.currentPresetId # lastOp.prev
           /\ state.currentPresetId \in Ids(presets)
           /\ state.lastAppliedOptions =
                  presets[FindIndex(presets, state.currentPresetId) + 1].options

C3_Witness ==
    /\ lastOp.op = "cycleTimer"
    /\ Len(presets) > 1
    /\ lastOp.prev \in Ids(presets)
    /\ state.currentPresetId \in Ids(presets)
    /\ state.isPlaying

\* C4 (Spec): while isPlaying is true hasUnsavedChanges is false, whatever
\* the difference between the live set and lastAppliedOptions.
C4_CyclingSuppressesUnsavedFlag ==
    state.isPlaying => ~state.hasUnsavedChanges

C4_Witness ==
    /\ state.isPlaying
    /\ lastOp.op = "checkForUnsavedChanges"
    /\ state.currentPresetId # NullId
    /\ state.lastAppliedOptions # NullOptions
    /\ \E key \in OptionFields :
           isSignificantlyDifferent(options[key],
                                    state.lastAppliedOptions[key], key)

\* C5 (SpecTransition): when applyPreset(id, useTransition) has returned
\* true, currentPresetId = id, lastAppliedOptions equals the preset's
\* options, hasUnsavedChanges is false, and a transition is in flight
\* exactly if useTransition was true; with useTransition false no
\* animation frame is pending and the live set equals the preset's options.
C5_ApplyPresetContract ==
    (lastOp.op = "applyPreset" /\ lastOp.ok) =>
        LET preset == presets[FindIndex(presets, lastOp.id) + 1] IN
        /\ state.currentPresetId = lastOp.id
        /\ state.lastAppliedOptions = preset.options
        /\ ~state.hasUnsavedChanges
        /\ transitionManager.isTransitioning = lastOp.flag
        /\ (transitionManager.animationFrame # NullHandle) = lastOp.flag
        /\ animationFrames = (IF lastOp.flag
                              THEN {transitionManager.animationFrame} ELSE {})
        /\ (~lastOp.flag => options = preset.options)

C5_Witness ==
    /\ lastOp.op = "applyPreset"
    /\ lastOp.ok
    /\ ~lastOp.flag
    /\ lastOp.busy
    /\ ~transitionManager.isTransitioning
    /\ options = presets[FindIndex(presets, lastOp.id) + 1].options

\* C6 (SpecTransition): applyPreset(id, true) called while a transition is
\* in flight starts the new transition from the live set as it is at the
\* call: on every continuous field the start snapshot and the first value
\* pushed equal the live value just before the call.
C6_ChainedTransitionStartsFromLive ==
    [][(/\ lastOp'.op = "applyPreset"
        /\ lastOp'.ok
        /\ lastOp'.flag
        /\ transitionManager.isTransitioning)
          => /\ Len(pushed') > 0
             /\ \A f \in ContinuousFields :
                    /\ pushed'[1][f] = options[f]
                    /\ transitionManager'.startValues[f] = options[f]]_vars

C6_Witness ==
    /\ lastOp.op = "applyPreset"
    /\ lastOp.ok
    /\ lastOp.flag
    /\ lastOp.busy
    /\ transitionManager.startValues # NullOptions
    /\ transitionManager.startValues.motionDecayRate \notin
           {DefaultOptions.motionDecayRate, WaveOptions.motionDecayRate,
            DirectionOptions.motionDecayRate}
    /\ pushed[1].motionDecayRate = transitionManager.startValues.motionDecayRate

\* C7 (SpecTransition): the animation step that finds the elapsed time at
\* least the duration pushes the target snapshot itself as its last update
\* and leaves the engine idle with no animation frame pending; a step that
\* finds less elapsed time leaves the transition in flight.
C7_TransitionEndsOnTarget ==
    (lastOp.op = "animate" /\ lastOp.ok) =>
        IF lastOp.flag
        THEN /\ Len(pushed) > 0
             /\ pushed[Len(pushed)] = transitionManager.targetValues
             /\ options = transitionManager.targetValues
             /\ ~transitionManager.isTransitioning
             /\ transitionManager.animationFrame = NullHandle
             /\ animationFrames = {}
        ELSE /\ transitionManager.isTransitioning
             /\ animationFrames = {transitionManager.animationFrame}

C7_Witness ==
    /\ lastOp.op = "animate"
    /\ lastOp.ok
    /\ lastOp.flag
    /\ now - transitionManager.transitionStartTime
           > transitionManager.transitionDuration
    /\ options = transitionManager.targetValues
    /\ options # DefaultOptions

\* C8 (SpecTransition): when a transition has been started, and after each
\* of its animation steps, moveType and waveDirection of the live set equal
\* the target's, and so do they in every update the handler pushed.
C8_DiscreteFieldsSwitchAtStart ==
    (\/ lastOp.op = "applyPreset" /\ lastOp.ok /\ lastOp.flag
     \/ lastOp.op \in CycleOps /\ lastOp.ok
     \/ lastOp.op = "animate" /\ lastOp.ok)
        => \A f \in DiscreteFields :
               /\ options[f] = transitionManager.targetValues[f]
               /\ \A i \in 1..Len(pushed) :
                      pushed[i][f] = transitionManager.targetValues[f]

C8_Witness ==
    /\ lastOp.op = "applyPreset"
    /\ lastOp.ok
    /\ lastOp.flag
    /\ transitionManager.isTransitioning
    /\ Len(pushed) = 2
    /\ options.moveType = transitionManager.targetValues.moveType
    /\ options.waveDirection = transitionManager.targetValues.waveDirection
    /\ options.motionDecayRate # transitionManager.targetValues.motionDecayRate

\* C9 (SpecStore): after createPreset, updatePreset, a deletePreset that
\* removed an entry or a reorderPresets that moved one, and the store having
\* accepted the write, the collection read back from the store equals the
\* collection in memory, order included.
MutatorOps == {"createPreset", "updatePreset", "deletePreset", "reorderPresets"}

C9_MutationsPersist ==
    (lastOp.op \in MutatorOps /\ lastOp.ok /\ lastOp.accept)
        => PresetStorage_load(localStorage) = presets

C9_Witness ==
    /\ lastOp.op = "reorderPresets"
    /\ lastOp.ok
    /\ lastOp.accept
    /\ Len(presets) > 1
    /\ presets[1].id > presets[2].id
    /\ PresetStorage_load(localStorage) = presets

\* C10 (SpecPacer): when stop() has returned no pacer timeout is pending.
\* stop() cancels only videoFrameCallbackId, which nothing assigns, so the
\* timeout armed by the last tick survives it: start(video, canvas), stop().
C10_StopCancelsPendingTick ==
    lastOp.op = "stop" => pacerTimers = <<>>

\* C11 (SpecDrift): when destroy() of the drift generator has returned, no
\* timeout and no animation frame of the generator is pending.  destroy()
\* clears the one timeout handle the generator remembers; a second start()
\* overwrites the handle of the first, whose timeout survives:
\* start(a), start(a), destroy().
C11_DestroyHaltsDrift ==
    lastOp.op = "driftDestroy" => driftTimers = {} /\ driftFrames = {}

\* C12 (SpecDrift): every angle the drift generator writes is at least 0 and
\* below 360.  Math.floor(Math.random() * 361) is 360 for a draw of at least
\* 360/361, and that target is written when its animation ends.
C12_DriftAngleInRange ==
    \A i \in 1..Len(pushed) :
        "movementAngle" \in DOMAIN pushed[i]
            => pushed[i].movementAngle >= 0 /\ pushed[i].movementAngle < 360 * 1000

\* C13 (SpecSettings): constructing the orchestrator leaves the stored
\* colorIntervalDuration as it was.  loadSettings calls setDuration, whose
\* callback saves the settings before colorIntervalDuration has been
\* assigned from the loaded record, so the default is written over it:
\* setColorIntervalDuration(60000), then load the page again.
C13_ConstructionKeepsColorInterval ==
    [][(lastOp'.op = "constructor" /\ settingsStorage.kind = "json")
          => SettingsStorage_load(settingsStorage').colorIntervalDuration
                 = SettingsStorage_load(settingsStorage).colorIntervalDuration]_vars

\* C14 (SpecUnsaved): not cycling and with currentPresetId and
\* lastAppliedOptions set, checkForUnsavedChanges(live) sets
\* hasUnsavedChanges to true exactly when some field other than
\* movementAngle differs from lastAppliedOptions by more than its tolerance:
\* 0.01 for motionDecayRate, waveFrequency and rotationSpeed, 0.05 for
\* wavePhase, 0.1 for motionSensitivity, 1 for movementSpeed, waveAmplitude
\* and motionThreshold, any difference for moveType and waveDirection.
ClaimedTolerance ==
    [motionDecayRate |-> 10, waveFrequency |-> 10, rotationSpeed |-> 10,
     wavePhase |-> 50, motionSensitivity |-> 100, movementSpeed |-> 1000,
     waveAmplitude |-> 1000, motionThreshold |-> 1000]

ClaimedDifference(live, saved) ==
    \/ \E f \in DiscreteFields : live[f] # saved[f]
    \/ \E f \in DOMAIN ClaimedTolerance :
           Abs(live[f] - saved[f]) > ClaimedTolerance[f]

C15_EditingStopsCycling ==
    [][/\ (lastOp'.op = "startEditingPreset" /\ lastOp'.ok)
            => /\ ~state'.isPlaying
               /\ cycleTimers' = {}
               /\ ~transitionManager'.isTransitioning
               /\ animationFrames' = {}
               /\ options' = presets'[FindIndex(presets', lastOp'.id) + 1].options
               /\ state'.isEditingPreset
               /\ state'.currentPresetId = lastOp'.id
       /\ (lastOp'.op \in {"saveEditingPreset", "cancelEditingPreset"})
            => (state'.isPlaying => state.isPlaying)]_vars

\* C16 (SpecIds): updatePreset, deletePreset, selectPreset, applyPreset and
\* startEditingPreset called with an id that no preset carries return false
\* and change nothing: not the collection, the orchestrator state, the cycle
\* timeout, the transition engine, the stored blob or the live set.
IdOps ==
    {"updatePreset", "deletePreset", "selectPreset", "applyPreset",
     "startEditingPreset"}

C16_UnknownIdChangesNothing ==
    [][(lastOp'.op \in IdOps /\ lastOp'.id \notin Ids(presets))
          => /\ ~lastOp'.ok
             /\ UNCHANGED <<presets, state, cycleTimeout, cycleTimers,
                            transitionManager, animationFrames, localStorage,
                            options>>]_vars

C16_Witness ==
    /\ lastOp.op = "startEditingPreset"
    /\ lastOp.id \notin Ids(presets)
    /\ ~lastOp.ok
    /\ Len(presets) > 0
    /\ state.isPlaying
    /\ cycleTimers # {}
    /\ transitionManager.isTransitioning

\* C17 (SpecReorder): reorderPresets(from, to) with from = to or an index
\* outside [0, length) leaves the collection and the stored blob as they
\* are; otherwise the collection keeps its length, the entry that was at
\* index from is at index to, the other entries keep their relative order,
\* and the collection is stored if the store accepts the write.
C17_ReorderMovesOneEntry ==
    [][lastOp'.op = "reorderPresets" =>
         LET from == lastOp'.from
             to == lastOp'.to
             n == Len(presets)
         IN IF from = to \/ from < 0 \/ to < 0 \/ from >= n \/ to >= n
            THEN presets' = presets /\ localStorage' = localStorage
            ELSE LET moved == presets[from + 1] IN
                 /\ Len(presets') = n
                 /\ presets'[to + 1] = moved
                 /\ SelectSeq(presets', LAMBDA p : p.id # moved.id)
                        = SelectSeq(presets, LAMBDA p : p.id # moved.id)
                 /\ lastOp'.accept => PresetStorage_load(localStorage') = presets'
                 /\ ~lastOp'.accept => localStorage' = localStorage]_vars

C17_Witness ==
    /\ lastOp.op = "reorderPresets"
    /\ lastOp.from = 0
    /\ lastOp.to = 2
    /\ lastOp.ok
    /\ Len(presets) = 3
    /\ <<presets[1].id, presets[2].id, presets[3].id>> = <<2, 3, 1>>

\* C18 (SpecSnapshot): createPreset called with the live set appends the new
\* preset after the entries there were, which keep their order, and stores
\* the controls the live set had at the call; no later write of the live set
\* by the user, the transition engine or the drift generator changes the
\* options of a stored preset.
C18_CreatedPresetIsSnapshot ==
    [][/\ lastOp'.op = "createPresetFromCurrentSettings" =>
            /\ Len(presets') = Len(presets) + 1
            /\ SubSeq(presets', 1, Len(presets)) = presets
            /\ presets'[Len(presets')].id = lastOp'.id
            /\ Deref(presets'[Len(presets')].options, options') = options
       /\ lastOp'.op # "createPresetFromCurrentSettings" =>
            /\ Len(presets') = Len(presets)
            /\ \A i \in 1..Len(presets) :
                   /\ presets'[i].id = presets[i].id
                   /\ Deref(presets'[i].options, options')
                          = Deref(presets[i].options, options)]_vars

C18_Witness ==
    /\ lastOp.op \in {"userEdit", "animate", "animateAngleChange"}
    /\ Len(presets) = 2
    /\ presets[2].options # options
    /\ presets[2].options.movementAngle # DefaultOptions.movementAngle
    /\ presets[2].options # presets[1].options

\* a step in which a tick of the pacer ran to its end and armed the timeout
\* of the next tick (start runs the first tick; a fired timeout is consumed)
TickScheduled ==
    \/ lastOp'.op = "start" /\ Len(pacerTimers') = Len(pacerTimers) + 1
    \/ lastOp'.op = "processMotionDetection" /\ Len(pacerTimers') = Len(pacerTimers)

\* the delay of the timeout armed last
ScheduledDelay == pacerTimers'[Len(pacerTimers')]

\* C19 (SpecPacer): the delay of the next tick is max(0, 50 - elapsed) for
\* the compute time elapsed the tick measured.  The code reads the compute
\* time as `computeTime || 16`, so a tick measured at 0 ms is scheduled
\* after 34 ms, not 50.
C19_DelayIsTargetMinusElapsed ==
    [][TickScheduled =>
         ScheduledDelay = Max(0, (1000 \div TargetFps) - motion'.computeTime)]_vars

\* C20 (SpecPacer): a tick whose measured compute time exceeds the target
\* interval of 50 ms schedules the next tick with delay 0, and no tick is
\* scheduled with a negative delay.
C20_SlowTickSchedulesAtOnce ==
    [][TickScheduled =>
         /\ motion'.computeTime > 1000 \div TargetFps => ScheduledDelay = 0
         /\ \A i \in 1..Len(pacerTimers') : pacerTimers'[i] >= 0]_vars

C20_Witness ==
    /\ lastOp.op = "processMotionDetection"
    /\ motion.isActive
    /\ motion.computeTime > 1000 \div TargetFps
    /\ Len(pacerTimers) > 0
    /\ pacerTimers[Len(pacerTimers)] = 0

\* C21 (SpecSettings): the transition duration is at least 100 ms in every
\* state; a call of setDuration(ms), by the user or by loadSettings with the
\* stored duration, leaves it at max(100, ms) and calls the duration-changed
\* observer once.
C21_DurationClamped ==
    /\ transitionManager.transitionDuration >= MinDuration
    /\ lastOp.op \in {"setDuration", "constructor"} /\ lastOp # NoOp =>
           /\ transitionManager.transitionDuration = Max(MinDuration, lastOp.arg)
           /\ lastOp.calls = 1

C21_Witness ==
    /\ lastOp.op = "constructor"
    /\ lastOp.arg < MinDuration
    /\ lastOp.calls = 1
    /\ transitionManager.transitionDuration = MinDuration

\* C22 (SpecPacer): a tick whose kernel call throws sets hasError and the
\* message, writes nothing to the canvas and arms no timeout; a later start()
\* that meets no failure clears the error and arms the next tick.  The tick
\* draws the camera frame on the canvas (ctx.drawImage) before it calls the
\* kernel, so the canvas shows the raw frame after the failed tick.
C22_KernelFailureAbortsTick ==
    [][/\ lastOp'.op = "processMotionDetection" /\ lastOp'.kernelThrew =>
            /\ motion'.hasError
            /\ motion'.errorMessage = "WASM motion detection error"
            /\ motion'.canvas = motion.canvas
            /\ Len(pacerTimers') = Len(pacerTimers) - 1
       /\ lastOp'.op = "start" /\ lastOp'.ok /\ ~lastOp'.kernelThrew =>
            /\ ~motion'.hasError
            /\ motion'.errorMessage = "null"
            /\ Len(pacerTimers') = Len(pacerTimers) + 1]_vars

\* C23 (SpecCycle): with one preset in the collection, startCycling and
\* every timeout that fires while cycling is on apply that preset with a
\* transition, set lastCycleTime to the time of the step, leave isPlaying
\* true and arm one new timeout that the orchestrator remembers; so while
\* cycling is on a remembered timeout is always pending.
C23_SinglePresetCycles ==
    [][/\ state'.isPlaying /\ Len(presets') = 1 => cycleTimeout' \in cycleTimers'
       /\ /\ Len(presets) = 1
          /\ \/ lastOp'.op = "startCycling"
             \/ lastOp'.op = "cycleTimer" /\ state.isPlaying
          =>
          /\ presets' = presets
          /\ state'.currentPresetId = presets[1].id
          /\ state'.lastAppliedOptions = presets[1].options
          /\ transitionManager'.isTransitioning
          /\ transitionManager'.targetValues = presets[1].options
          /\ transitionManager'.transitionStartTime = now
          /\ transitionManager'.animationFrame \in animationFrames'
          /\ state'.lastCycleTime = wallClock
          /\ state'.isPlaying
          /\ cycleTimeout' \in cycleTimers'
          /\ Cardinality(cycleTimers')
                 = Cardinality(cycleTimers)
                       + (IF lastOp'.op = "startCycling" THEN 1 ELSE 0)]_vars

C23_Witness ==
    /\ lastOp.op = "cycleTimer"
    /\ Len(presets) = 1
    /\ state.isPlaying
    /\ state.currentPresetId = presets[1].id
    /\ wallClock > 0
    /\ state.lastCycleTime = wallClock
    /\ now > 0
    /\ transitionManager.isTransitioning
    /\ cycleTimeout \in cycleTimers

C25_LoadFailsToEmpty ==
    lastOp.op = "constructor" /\ localStorage.kind # "json" => presets = <<>>

\* the controls a handler wrote through its callback
WrittenFields == UNION {DOMAIN pushed[i] : i \in 1..Len(pushed)}

\* C26 (SpecSnapshot): the drift generator writes movementAngle only, and
\* while it runs no frame of a transition writes that control.  animate
\* hands all eleven controls to its callback, movementAngle among them, and
\* Object.assign copies each into the live set.
C26_EngineAndDriftWriteApart ==
    /\ lastOp.op = "animateAngleChange" => WrittenFields \subseteq {"movementAngle"}
    /\ (lastOp.op = "animate" /\ lastOp.ok
            /\ driftTimers \cup driftFrames # {})
           => "movementAngle" \notin WrittenFields

\* C27 (SpecCycle): at most one cycle timeout is pending in every state.
\* startCycling arms a timeout without clearing the one that is pending, so
\* startCycling(); startCycling() leaves two.
C27_OneCycleTimer ==
    Cardinality(cycleTimers) <= 1

\* C28 (SpecCycle): when stopCycling() has returned no cycle timeout is
\* pending.  stopCycling clears the one handle in cycleTimeout; the timeout
\* of an earlier startCycling, whose handle was overwritten, stays pending
\* and cycleToNextPreset applies a preset when it fires.
C28_StopClearsCycleTimers ==
    lastOp.op = "stopCycling" => cycleTimers = {}

\* C29 (SpecPacer): at most one timeout of the frame pacer is pending in
\* every state.  start() runs a tick that arms a timeout whether or not one
\* is pending, and stop() cancels none: start(); stop(); start().
C29_OnePacerTimer ==
    Len(pacerTimers) <= 1

\* C30 (SpecCycle): checkForUnsavedChanges run right after a stopCycling()
\* that cancelled a transition of the cycle leaves hasUnsavedChanges false.
\* The cancelled transition leaves the live set between its start and the
\* preset, lastAppliedOptions is the preset, and with isPlaying false the
\* comparison is made and finds the difference.
C30_CancelledCycleIsNoEdit ==
    [][(/\ lastOp.op = "stopCycling"
        /\ lastOp.flag
        /\ lastOp.busy
        /\ lastOp'.op = "checkForUnsavedChanges")
       => ~state'.hasUnsavedChanges]_vars

\* C31 (SpecInterpolation): for every raw progress from 0 to 1 the eased
\* progress is from 0 to 1, and the value animate pushes for a continuous
\* field lies between the field's values in the start and the target
\* snapshot.  start + (end - start) * t rounds the difference and the sum,
\* so at progress 1 the value can lie one rounding step beyond the target.
C31_PushedBetweenSnapshots ==
    \A i \in 1..Len(pushed) :
        "value" \in DOMAIN pushed[i] =>
            /\ pushed[i].progress >= 0
            /\ pushed[i].progress <= One
            /\ pushed[i].value >= Min(pushed[i].start, pushed[i].target)
            /\ pushed[i].value <= Max(pushed[i].start, pushed[i].target)

\* latest reading of performance.now() under the drift generator
DriftHorizon == MaxDriftTicks * DriftTickMs

\* the readings of performance.now() under the drift generator
DriftTimes == {k * DriftTickMs : k \in 0..MaxDriftTicks}

\* C32 (FairDriftLoop): after start() and without destroy(), in every state
\* exactly one continuation of the drift generator is pending, the timeout
\* or an animation frame, and it is the one the generator remembers; the
\* step that ends an animation writes the target as its last value and arms
\* the timeout; a retarget starts from the previous target; the first
\* retarget comes, and every animation that ends within the time explored
\* is followed by a new retarget.
C32_DriftNeverStops ==
    /\ [](/\ Cardinality(driftTimers) + Cardinality(driftFrames) = 1
          /\ driftTimers \subseteq {drift.angleAnimationTimeout}
          /\ driftFrames \subseteq {drift.angleAnimationFrame})
    /\ [][/\ (lastOp'.op = "animateAngleChange" /\ lastOp'.flag) =>
               /\ pushed'[Len(pushed')] = [movementAngle |-> drift.angleAnimationTo]
               /\ options'.movementAngle = drift.angleAnimationTo
               /\ driftFrames' = {}
               /\ driftTimers' = {drift'.angleAnimationTimeout}
          /\ (lastOp'.op = "animateAngleChange" /\ ~lastOp'.flag) =>
               /\ driftFrames' = {drift'.angleAnimationFrame}
               /\ driftTimers' = {}
          /\ lastOp'.op = "driftTimer" =>
               /\ drift'.angleAnimationFrom = drift.angleAnimationTo
               /\ drift'.angleAnimationStart = now
               /\ driftFrames' = {drift'.angleAnimationFrame}]_vars
    /\ <>(lastOp.op = "driftTimer")
    /\ \A s \in DriftTimes :
           (/\ lastOp.op = "driftTimer"
            /\ drift.angleAnimationStart = s
            /\ s + drift.angleAnimationDuration <= DriftHorizon)
             ~> (lastOp.op = "driftTimer" /\ drift.angleAnimationStart > s)

C32_Witness ==
    /\ lastOp.op = "driftTimer"
    /\ drift.angleAnimationStart = DriftHorizon
    /\ drift.angleAnimationFrom # DefaultOptions.movementAngle
    /\ options.movementAngle = drift.angleAnimationFrom
    /\ Cardinality(driftFrames) = 1
    /\ driftTimers = {}

\* C33 (SpecPacer): at most one kernel instance is constructed and not
\* freed, and it is the one the pacer refers to; start() constructs an
\* instance only when the pacer refers to none; stop() frees the instance
\* the pacer refers to and leaves the reference null; a tick calls only an
\* instance that is not freed.
C33_OneKernelInstance ==
    /\ [](/\ Cardinality(motion.kernels) <= 1
          /\ motion.kernels =
                 (IF motion.motionDetector = NullHandle THEN {}
                  ELSE {motion.motionDetector}))
    /\ [][/\ lastOp'.op = "start" =>
               /\ motion.motionDetector # NullHandle =>
                      /\ motion'.kernels = motion.kernels
                      /\ motion'.motionDetector = motion.motionDetector
               /\ motion'.kernels # motion.kernels =>
                      /\ motion.MotionDetector
                      /\ motion.kernels = {}
          /\ lastOp'.op = "stop" =>
               /\ motion'.kernels = {}
               /\ motion'.motionDetector = NullHandle
          /\ lastOp'.op = "processMotionDetection" =>
               /\ motion'.kernels = motion.kernels
               /\ motion'.motionDetector = motion.motionDetector
          /\ lastOp'.invoked # NullHandle =>
               lastOp'.invoked \in motion'.kernels]_vars

C33_Witness ==
    /\ lastOp.op = "processMotionDetection"
    /\ lastOp.invoked # NullHandle
    /\ lastOp.flag
    /\ Len(pacerTimers) = MaxPacerTimers
    /\ motion.kernels = {lastOp.invoked}

\* C34 (SpecEngine): after any sequence of startTransition,
\* cancelTransition, applyImmediately, destroy and animation frames, the
\* engine is transitioning exactly when one animation frame is pending, the
\* one it remembers, and never more than one is pending; cancelTransition
\* and destroy, called once or again, leave the engine idle with no frame
\* pending and write nothing; while the engine is idle only startTransition
\* and applyImmediately call the update callback.
C34_TransitioningIffFramePending ==
    /\ [](/\ Cardinality(animationFrames) <= 1
          /\ transitionManager.isTransitioning <=> Cardinality(animationFrames) = 1
          /\ animationFrames \subseteq {transitionManager.animationFrame})
    /\ [][/\ lastOp'.op \in {"cancelTransition", "destroy"} =>
               /\ ~transitionManager'.isTransitioning
               /\ animationFrames' = {}
               /\ pushed' = <<>>
               /\ options' = options
          /\ (/\ ~transitionManager.isTransitioning
              /\ lastOp'.op \notin {"startTransition", "applyImmediately"}) =>
               /\ pushed' = <<>>
               /\ options' = options
               /\ ~transitionManager'.isTransitioning]_vars

C34_Witness ==
    /\ lastOp.op = "cancelTransition"
    /\ lastOp.flag
    /\ now > 0
    /\ options \notin TargetChoices \cup {DefaultOptions}
    /\ transitionManager.targetValues # NullOptions
    /\ options # transitionManager.targetValues
    /\ animationFrames = {}

\* C35 (Spec): whenever isPlaying is true exactly one cycle timeout is
\* pending, also after presets were deleted or created while cycling.  A
\* second startCycling() arms a second timeout; and cycleToNextPreset
\* returns before scheduleNextCycle when the collection is empty, so the
\* timeout that fires after the last preset was deleted arms no successor
\* and isPlaying stays true with none pending.
C35_OneTimerWhilePlaying ==
    state.isPlaying => Cardinality(cycleTimers) = 1

\* C36 (SpecIds): while isEditingPreset stays true, currentPresetId stays
\* the id the edit was begun with, whatever operation runs.  applyPreset,
\* which a click on an entry of the list calls, and selectPreset assign
\* currentPresetId without looking at isEditingPreset, and saveEditingPreset
\* writes into whatever preset is current then: startEditingPreset(1),
\* applyPreset(2), saveEditingPreset(params) overwrites preset 2.
EditInterleavedOps ==
    {"applyPreset", "selectPreset", "createPresetFromCurrent", "startCycling",
     "cycleTimer"}

C36_EditKeepsCurrentPreset ==
    [][(/\ state.isEditingPreset
        /\ state'.isEditingPreset
        /\ lastOp'.op \in EditInterleavedOps)
       => state'.currentPresetId = state.currentPresetId]_vars

\* C37 (SpecIds): whenever isEditingPreset is true, currentPresetId is the
\* id of a preset of the collection.  deletePreset clears currentPresetId
\* when the current preset is the one deleted and leaves isEditingPreset as
\* it is: after startEditingPreset(1), deletePreset(1) the orchestrator is
\* in edit mode with no current preset, and saveEditingPreset returns false.
C37_EditedPresetIsStored ==
    state.isEditingPreset =>
        /\ state.currentPresetId # NullId
        /\ state.currentPresetId \in Ids(presets)

\* C38 (SpecIds): whenever currentPresetId and lastAppliedOptions are both
\* set, lastAppliedOptions equals the options stored in the current preset.
\* selectPreset assigns currentPresetId and leaves lastAppliedOptions as it
\* is (and saveEditingPreset stores new options without refreshing it):
\* after applyPreset(1), selectPreset(2) the comparison of
\* checkForUnsavedChanges is made against the options of preset 1.
C38_LastAppliedIsCurrentPreset ==
    (state.currentPresetId # NullId /\ state.lastAppliedOptions # NullOptions)
        => /\ state.currentPresetId \in Ids(presets)
           /\ state.lastAppliedOptions =
                  presets[FindIndex(presets, state.currentPresetId) + 1].options

\* C39 (SpecPacer): when start() has returned false, isActive is false and
\* no pacer timeout is pending.  start() sets isActive to true before it
\* asks for the canvas context and before it constructs the kernel, and the
\* two failure branches return false without setting it back:
\* start(video, canvas) with getContext returning null.
C39_FailedStartLeavesInactive ==
    (lastOp.op = "start" /\ ~lastOp.ok)
        => ~motion.isActive /\ pacerTimers = <<>>

\* C40 (SpecCycleSettings): cycleInterval is at least 1000 ms in every
\* reachable state.  setCycleInterval raises its argument to the minimum,
\* loadSettings assigns the stored cycleDuration as it is, and
\* SettingsStorage.load accepts any number: a page load over a stored
\* cycleDuration of 500 leaves cycleInterval at 500.
C40_CycleIntervalAtLeastMinimum ==
    state.cycleInterval >= MinInterval

====
